---- MODULE Spec2Model ----
(***************************************************************************)
(* Session/response state tracker of opencode-prompts: the response parser *)
(* (parsePromptEngineResponse), the two-tier session state store           *)
(* (loadSessionState / saveSessionState / clearSessionState) and the       *)
(* plugin handlers that drive them (tool.execute.after,                    *)
(* experimental.session.compacting, event).                                *)
(*                                                                         *)
(* Representation.  A JavaScript string is a sequence of characters, each  *)
(* character a one-character TLA+ string.  A value of type "T or null" is  *)
(* a sequence of length at most one: <<>> is null, <<v>> is the value v.   *)
(***************************************************************************)
EXTENDS Integers, Sequences, FiniteSets, TLC

VARIABLES sessionStates, files, dirExists, last, cleared

vars == <<sessionStates, files, dirExists, last, cleared>>

-----------------------------------------------------------------------------
(* Characters and character classes of the regular expressions.            *)

NL == "\n"

\* U+2022, the second bullet character of the criteria pattern.
BULLET == "U+2022"

Digits == {"0", "1", "2", "3", "4", "5", "6", "7", "8", "9"}

DigitVal == [c \in Digits |->
               CASE c = "0" -> 0 [] c = "1" -> 1 [] c = "2" -> 2 [] c = "3" -> 3
                 [] c = "4" -> 4 [] c = "5" -> 5 [] c = "6" -> 6 [] c = "7" -> 7
                 [] c = "8" -> 8 [] c = "9" -> 9]

Lower == {"a", "b", "c", "d", "e", "f", "g", "h", "i", "j", "k", "l", "m",
          "n", "o", "p", "q", "r", "s", "t", "u", "v", "w", "x", "y", "z"}

Upper == {"A", "B", "C", "D", "E", "F", "G", "H", "I", "J", "K", "L", "M",
          "N", "O", "P", "Q", "R", "S", "T", "U", "V", "W", "X", "Y", "Z"}

Letters == Lower \cup Upper

\* \s, over the characters the texts of this model are made of
WS == {" ", "\t", NL}

\* what . does not match, over the same characters
LineTerminators == {NL}

\* [a-zA-Z0-9_#-]
ChainIdChars == Letters \cup Digits \cup {"_", "#", "-"}

\* [A-Za-z0-9 _-]
GateNameChars == Letters \cup Digits \cup {" ", "_", "-"}

\* [-•]
BulletChars == {"-", BULLET}

-----------------------------------------------------------------------------
(* Regular-expression primitives over a character sequence s.              *)

\* s has the literal w at position i
StartsAt(s, i, w) ==
  /\ i >= 1
  /\ i + Len(w) - 1 <= Len(s)
  /\ \A k \in 1..Len(w) : s[i + k - 1] = w[k]

\* String.prototype.includes
Includes(s, w) == \E i \in 1..(Len(s) + 1) : StartsAt(s, i, w)

\* greedy C*: the first position at or after i whose character is not in C
RECURSIVE SkipWhile(_, _, _)
SkipWhile(s, i, C) ==
  IF i <= Len(s) /\ s[i] \in C THEN SkipWhile(s, i + 1, C) ELSE i

\* lazy .+? up to a line end: the first position at or after i holding a
\* line terminator, Len(s)+1 if there is none
RECURSIVE SkipToLineEnd(_, _)
SkipToLineEnd(s, i) ==
  IF i <= Len(s) /\ s[i] \notin LineTerminators THEN SkipToLineEnd(s, i + 1) ELSE i

\* parseInt(digits, 10) of the digits s[i..j-1]
RECURSIVE ParseInt(_, _, _)
ParseInt(s, i, j) ==
  IF j <= i THEN 0 ELSE 10 * ParseInt(s, i, j - 1) + DigitVal[s[j - 1]]

\* String.prototype.trim
RECURSIVE TrimLeft(_)
TrimLeft(s) == IF s # <<>> /\ Head(s) \in WS THEN TrimLeft(Tail(s)) ELSE s

RECURSIVE TrimRight(_)
TrimRight(s) ==
  IF s # <<>> /\ s[Len(s)] \in WS THEN TrimRight(SubSeq(s, 1, Len(s) - 1)) ELSE s

Trim(s) == TrimRight(TrimLeft(s))

MinOf(S) == CHOOSE m \in S : \A n \in S : m <= n

MaxOf(S) == CHOOSE m \in S : \A n \in S : m >= n

-----------------------------------------------------------------------------
(* The patterns of parsePromptEngineResponse.  Each XAt(s, i) is the match *)
(* the pattern makes when anchored at position i (<<>>: none), computed    *)
(* the way the backtracking matcher computes it; String.prototype.match    *)
(* takes the leftmost i that matches.                                      *)

\* the literals of the patterns
wStep == <<"S", "t", "e", "p">>
wstep == <<"s", "t", "e", "p">>
wProgress == <<"P", "r", "o", "g", "r", "e", "s", "s">>
wprogress == <<"p", "r", "o", "g", "r", "e", "s", "s">>
wOf == <<"o", "f">>
wSlash == <<"/">>
wChain == <<"c", "h", "a", "i", "n">>
wGate == <<"G", "a", "t", "e">>
wInlineGates == <<"#", "#", " ", "I", "n", "l", "i", "n", "e", " ", "G", "a", "t", "e", "s">>
wHashes == <<"#", "#", "#">>
wShellVerification == <<"S", "h", "e", "l", "l", " ", "v", "e", "r", "i", "f", "i",
                        "c", "a", "t", "i", "o", "n", ":">>
wAttempt == <<"A", "t", "t", "e", "m", "p", "t">>

\* the step pattern with capitalised words only
StepMatchAt_capitalOnly(s, i) ==
  LET w == IF StartsAt(s, i, wStep) THEN i + 4
           ELSE IF StartsAt(s, i, wProgress) THEN i + 8
           ELSE 0
      a == SkipWhile(s, w, WS)
      b == SkipWhile(s, a, Digits)
      c == SkipWhile(s, b, WS)
      d == IF StartsAt(s, c, wOf) THEN c + 2
           ELSE IF StartsAt(s, c, wSlash) THEN c + 1
           ELSE 0
      e == SkipWhile(s, d, WS)
      f == SkipWhile(s, e, Digits)
  IN  IF w > 0 /\ a > w /\ b > a /\ d > 0 /\ f > e
      THEN << <<ParseInt(s, a, b), ParseInt(s, e, f)>> >>
      ELSE <<>>

\* /(?:[Ss]tep|[Pp]rogress)\s+(\d+)\s*(?:of|\/)\s*(\d+)/
StepMatchAt(s, i) ==
  LET w == IF StartsAt(s, i, wStep) \/ StartsAt(s, i, wstep) THEN i + 4
           ELSE IF StartsAt(s, i, wProgress) \/ StartsAt(s, i, wprogress) THEN i + 8
           ELSE 0
      a == SkipWhile(s, w, WS)
      b == SkipWhile(s, a, Digits)
      c == SkipWhile(s, b, WS)
      d == IF StartsAt(s, c, wOf) THEN c + 2
           ELSE IF StartsAt(s, c, wSlash) THEN c + 1
           ELSE 0
      e == SkipWhile(s, d, WS)
      f == SkipWhile(s, e, Digits)
  IN  IF w > 0 /\ a > w /\ b > a /\ d > 0 /\ f > e
      THEN << <<ParseInt(s, a, b), ParseInt(s, e, f)>> >>
      ELSE <<>>

\* /(chain[-_][a-zA-Z0-9_#-]+)/
ChainMatchAt(s, i) ==
  LET e == SkipWhile(s, i + 6, ChainIdChars)
  IN  IF StartsAt(s, i, wChain) /\ i + 5 <= Len(s) /\ s[i + 5] \in {"-", "_"} /\ e > i + 6
      THEN << SubSeq(s, i, e - 1) >>
      ELSE <<>>

\* /###\s*([A-Za-z][A-Za-z0-9 _-]+)\n/ : the matched text
GateNameMatchAt(s, i) ==
  LET a == SkipWhile(s, i + 3, WS)
      b == SkipWhile(s, a + 1, GateNameChars)
  IN  IF /\ StartsAt(s, i, wHashes)
         /\ a <= Len(s) /\ s[a] \in Letters
         /\ b > a + 1
         /\ b <= Len(s) /\ s[b] = NL
      THEN << SubSeq(s, i, b) >>
      ELSE <<>>

\* \s*(.+?)(?:\n|$) anchored at p, the tail of the criteria and the shell
\* verification patterns: <<from, to, next>>, the capture s[from..to] and the
\* position after the match.  \s* takes the whole whitespace run when a
\* character follows it; when the run reaches the end of the text it gives
\* back characters until .+? has one it can match, the last whitespace
\* character of the run that is no line terminator.
RestOfLineAt(s, p) ==
  LET w == SkipWhile(s, p, WS)
      back == {q \in p..Len(s) : s[q] \notin LineTerminators}
      q == IF w <= Len(s) THEN w ELSE IF back # {} THEN MaxOf(back) ELSE 0
      r == SkipToLineEnd(s, q)
  IN  IF q = 0 THEN <<>>
      ELSE << <<q, r - 1, IF r <= Len(s) THEN r + 1 ELSE r>> >>

\* /[-•]\s*(.+?)(?:\n|$)/ : <<first, next>>, the matched text s[first..next-1]
CriteriaMatchAt(s, i) ==
  LET m == RestOfLineAt(s, i + 1)
  IN  IF i <= Len(s) /\ s[i] \in BulletChars /\ m # <<>>
      THEN << <<i, m[1][3]>> >>
      ELSE <<>>

\* /Shell verification:\s*(.+?)(?:\n|$)/ : the capture
VerifyMatchAt(s, i) ==
  LET m == RestOfLineAt(s, i + Len(wShellVerification))
  IN  IF StartsAt(s, i, wShellVerification) /\ m # <<>>
      THEN << SubSeq(s, m[1][1], m[1][2]) >>
      ELSE <<>>

\* /Attempt\s+(\d+)\/(\d+)/ : the first number
AttemptMatchAt(s, i) ==
  LET a == SkipWhile(s, i + 7, WS)
      b == SkipWhile(s, a, Digits)
      c == SkipWhile(s, b + 1, Digits)
  IN  IF /\ StartsAt(s, i, wAttempt)
         /\ a > i + 7 /\ b > a
         /\ b <= Len(s) /\ s[b] = "/"
         /\ c > b + 1
      THEN << ParseInt(s, a, b) >>
      ELSE <<>>

\* the rightmost position where the step pattern matches
FirstStep_last(s) == LET I == {i \in 1..Len(s) : StepMatchAt(s, i) # <<>>}
                     IN  IF I = {} THEN 0 ELSE MaxOf(I)

\* the rightmost position where the chain pattern matches
FirstChain_last(s) == LET I == {i \in 1..Len(s) : ChainMatchAt(s, i) # <<>>}
                      IN  IF I = {} THEN 0 ELSE MaxOf(I)

\* the leftmost position at or after p where a pattern matches (0: none)
FirstStep(s) == LET I == {i \in 1..Len(s) : StepMatchAt(s, i) # <<>>}
                IN  IF I = {} THEN 0 ELSE MinOf(I)

FirstChain(s) == LET I == {i \in 1..Len(s) : ChainMatchAt(s, i) # <<>>}
                 IN  IF I = {} THEN 0 ELSE MinOf(I)

FirstGateName(s) == LET I == {i \in 1..Len(s) : GateNameMatchAt(s, i) # <<>>}
                    IN  IF I = {} THEN 0 ELSE MinOf(I)

FirstVerify(s) == LET I == {i \in 1..Len(s) : VerifyMatchAt(s, i) # <<>>}
                  IN  IF I = {} THEN 0 ELSE MinOf(I)

FirstAttempt(s) == LET I == {i \in 1..Len(s) : AttemptMatchAt(s, i) # <<>>}
                   IN  IF I = {} THEN 0 ELSE MinOf(I)

\* content.match(/[-•]\s*(.+?)(?:\n|$)/g): every match, left to right, each
\* search resuming where the previous match ended
RECURSIVE CriteriaMatches(_, _)
CriteriaMatches(s, p) ==
  LET I == {i \in p..Len(s) : CriteriaMatchAt(s, i) # <<>>}
  IN  IF I = {} THEN <<>>
      ELSE LET m == CriteriaMatchAt(s, MinOf(I))[1]
           IN  <<SubSeq(s, m[1], m[2] - 1)>> \o CriteriaMatches(s, m[2])

\* c.replace(/^[-•]\s*/, "").trim()
StripBullet(c) == Trim(TrimLeft(Tail(c)))

\* gateNames[0].replace(/^###\s*/, "").replace(/\n$/, "")
StripHeading(g) ==
  LET a == TrimLeft(SubSeq(g, 4, Len(g)))
  IN  IF a # <<>> /\ a[Len(a)] = NL THEN SubSeq(a, 1, Len(a) - 1) ELSE a

\* criteria.slice(0, 5)
MaxCriteria == 5

Slice(q, n) == SubSeq(q, 1, IF Len(q) < n THEN Len(q) ELSE n)

\* Array.prototype.filter((c) => c.length > 0)
RECURSIVE FilterNonEmpty(_)
FilterNonEmpty(q) ==
  IF q = <<>> THEN <<>>
  ELSE (IF Head(q) # <<>> THEN <<Head(q)>> ELSE <<>>) \o FilterNonEmpty(Tail(q))

-----------------------------------------------------------------------------
(* ChainState and parsePromptEngineResponse.                               *)

\* JavaScript truthiness of a "string or null" value: null and "" are falsy
Truthy(v) == v # <<>> /\ v[1] # <<>>

\* the state the parser starts from
EmptyState ==
  [chain_id |-> <<>>,
   current_step |-> 0,
   total_steps |-> 0,
   pending_gate |-> <<>>,
   gate_criteria |-> <<>>,
   last_prompt_id |-> <<>>,
   pending_shell_verify |-> <<>>,
   shell_verify_attempts |-> 0]

\* Array.prototype.join(sep)
RECURSIVE Join(_, _)
Join(q, sep) ==
  IF q = <<>> THEN <<>>
  ELSE IF Len(q) = 1 THEN q[1]
  ELSE q[1] \o sep \o Join(Tail(q), sep)

\* String(response) of an object without a usable content field
ObjectString == <<"[", "o", "b", "j", "e", "c", "t", " ", "O", "b", "j", "e", "c", "t", "]">>

\* the text the parser scans.  A response is [kind, text, blocks]: a string,
\* an object whose content is a string, an object whose content is an array
\* of text blocks, or any other object
Normalize(response) ==
  CASE response.kind = "string" -> response.text
    [] response.kind = "content" -> response.text
    [] response.kind = "blocks" -> Join(response.blocks, <<" ">>)
    [] OTHER -> ObjectString

\* the state as it stands before the final test of the parser
ExtractState(content) ==
  LET stepAt == FirstStep(content)
      chainAt == FirstChain(content)
      gateAt == FirstGateName(content)
      verifyAt == FirstVerify(content)
      attemptAt == FirstAttempt(content)
      gates == Includes(content, wInlineGates) \/ Includes(content, wGate)
      criteria == CriteriaMatches(content, 1)
  IN  [chain_id |-> IF chainAt > 0 THEN ChainMatchAt(content, chainAt)[1] ELSE <<>>,
       current_step |-> IF stepAt > 0 THEN StepMatchAt(content, stepAt)[1][1] ELSE 0,
       total_steps |-> IF stepAt > 0 THEN StepMatchAt(content, stepAt)[1][2] ELSE 0,
       pending_gate |->
         IF gates /\ gateAt > 0
         THEN << Trim(StripHeading(GateNameMatchAt(content, gateAt)[1])) >>
         ELSE <<>>,
       gate_criteria |->
         IF gates /\ criteria # <<>>
         THEN FilterNonEmpty([k \in 1..Len(Slice(criteria, MaxCriteria)) |->
                                StripBullet(criteria[k])])
         ELSE <<>>,
       last_prompt_id |-> <<>>,
       pending_shell_verify |->
         IF verifyAt > 0 THEN << Trim(VerifyMatchAt(content, verifyAt)[1]) >> ELSE <<>>,
       shell_verify_attempts |->
         IF attemptAt > 0 THEN AttemptMatchAt(content, attemptAt)[1] ELSE 0]

\* Found with the shell verification tested against null instead of by
\* truthiness
Found_notNull(state) ==
  \/ state.current_step > 0
  \/ Truthy(state.pending_gate)
  \/ state.pending_shell_verify # <<>>

\* Found returning every state, whatever was found
Found_always(state) == TRUE

\* the final test: a state is returned only if chain, gate or verify info was found
Found(state) ==
  \/ state.current_step > 0
  \/ Truthy(state.pending_gate)
  \/ Truthy(state.pending_shell_verify)

parsePromptEngineResponse(response) ==
  LET state == ExtractState(Normalize(response))
  IN  IF Found(state) THEN <<state>> ELSE <<>>

-----------------------------------------------------------------------------
(* The file tier: the sessions directory and one file per session.         *)

SessionIds == {"s1", "default"}

\* JSON.stringify(state, null, 2): the text of an object, its members in
\* field order
JsonStringify(state) ==
  [text |-> "object",
   members |-> << <<"chain_id", state.chain_id>>,
                  <<"current_step", state.current_step>>,
                  <<"total_steps", state.total_steps>>,
                  <<"pending_gate", state.pending_gate>>,
                  <<"gate_criteria", state.gate_criteria>>,
                  <<"last_prompt_id", state.last_prompt_id>>,
                  <<"pending_shell_verify", state.pending_shell_verify>>,
                  <<"shell_verify_attempts", state.shell_verify_attempts>> >>]

\* a file holding the JSON text null, and one holding no JSON text at all
JsonNullText == [text |-> "null", members |-> <<>>]

MalformedText == [text |-> "garbage", members |-> <<>>]

\* JSON.parse throws a SyntaxError
JsonParseThrows(content) == content.text = "garbage"

\* JSON.parse(content) as ChainState: <<>> for the JSON value null
JsonParse(content) ==
  IF content.text = "object"
  THEN << [chain_id |-> content.members[1][2],
           current_step |-> content.members[2][2],
           total_steps |-> content.members[3][2],
           pending_gate |-> content.members[4][2],
           gate_criteria |-> content.members[5][2],
           last_prompt_id |-> content.members[6][2],
           pending_shell_verify |-> content.members[7][2],
           shell_verify_attempts |-> content.members[8][2]] >>
  ELSE <<>>

\* the file-system call that throws in one call of the store, if it is
\* reached; each function is given the calls it can reach
LoadFaults == {"none", "mkdirSync", "readFileSync"}

SaveFaults == {"none", "mkdirSync", "writeFileSync"}

ClearFaults == {"none", "mkdirSync", "unlinkSync"}

\* Map.prototype.get: undefined (here <<>>) when there is no entry
MapGet(map, id) == IF id \in DOMAIN map THEN map[id] ELSE <<>>

\* Map.prototype.set
MapSet(map, id, v) == [k \in DOMAIN map \cup {id} |-> IF k = id THEN v ELSE map[k]]

\* Map.prototype.delete, and the removal of a file
MapDelete(map, id) == [k \in DOMAIN map \ {id} |-> map[k]]

\* getSessionStatePath: creates the sessions directory when it is missing;
\* mkdirSync is called outside any try block
getSessionStatePath(dir, fault) ==
  [threw |-> ~dir /\ fault = "mkdirSync",
   dir |-> dir \/ fault # "mkdirSync"]

\* loadSessionState returning the record of the file without putting it into
\* the Map
loadSessionState_noPromote(mem, fl, dir, id, fault) ==
  LET inMemory == MapGet(mem, id)
      path == getSessionStatePath(dir, fault)
  IN  IF inMemory # <<>>
      THEN [threw |-> FALSE, result |-> inMemory, mem |-> mem, dir |-> dir]
      ELSE IF path.threw
      THEN [threw |-> TRUE, result |-> <<>>, mem |-> mem, dir |-> path.dir]
      ELSE IF id \notin DOMAIN fl
      THEN [threw |-> FALSE, result |-> <<>>, mem |-> mem, dir |-> path.dir]
      ELSE IF fault = "readFileSync" \/ JsonParseThrows(fl[id])
      THEN [threw |-> FALSE, result |-> <<>>, mem |-> mem, dir |-> path.dir]
      ELSE [threw |-> FALSE, result |-> JsonParse(fl[id]), mem |-> mem, dir |-> path.dir]

\* loadSessionState reading the session file before the Map
loadSessionState_fileFirst(mem, fl, dir, id, fault) ==
  LET inMemory == MapGet(mem, id)
      path == getSessionStatePath(dir, fault)
  IN  IF path.threw
      THEN [threw |-> TRUE, result |-> <<>>, mem |-> mem, dir |-> path.dir]
      ELSE IF id \in DOMAIN fl /\ fault # "readFileSync" /\ ~JsonParseThrows(fl[id])
      THEN [threw |-> FALSE, result |-> JsonParse(fl[id]),
            mem |-> MapSet(mem, id, JsonParse(fl[id])), dir |-> path.dir]
      ELSE [threw |-> FALSE, result |-> inMemory, mem |-> mem, dir |-> path.dir]

\* loadSessionState: [threw, result, mem, dir]
loadSessionState(mem, fl, dir, id, fault) ==
  LET inMemory == MapGet(mem, id)
      path == getSessionStatePath(dir, fault)
  IN  IF inMemory # <<>>
      THEN [threw |-> FALSE, result |-> inMemory, mem |-> mem, dir |-> dir]
      ELSE IF path.threw
      THEN [threw |-> TRUE, result |-> <<>>, mem |-> mem, dir |-> path.dir]
      ELSE IF id \notin DOMAIN fl
      THEN [threw |-> FALSE, result |-> <<>>, mem |-> mem, dir |-> path.dir]
      ELSE IF fault = "readFileSync" \/ JsonParseThrows(fl[id])
      THEN [threw |-> FALSE, result |-> <<>>, mem |-> mem, dir |-> path.dir]
      ELSE [threw |-> FALSE, result |-> JsonParse(fl[id]),
            mem |-> MapSet(mem, id, JsonParse(fl[id])), dir |-> path.dir]

\* saveSessionState keeping the chain_id of the stored state when the new
\* state has none
saveSessionState_merge(mem, fl, dir, id, state, persistToFile, fault) ==
  LET old == MapGet(mem, id)
      merged == IF old # <<>> /\ state.chain_id = <<>>
                THEN [state EXCEPT !.chain_id = old[1].chain_id]
                ELSE state
      stored == MapSet(mem, id, <<merged>>)
      path == getSessionStatePath(dir, fault)
  IN  IF ~persistToFile
      THEN [threw |-> FALSE, mem |-> stored, files |-> fl, dir |-> dir]
      ELSE IF path.threw
      THEN [threw |-> TRUE, mem |-> stored, files |-> fl, dir |-> path.dir]
      ELSE IF fault = "writeFileSync"
      THEN [threw |-> FALSE, mem |-> stored, files |-> fl, dir |-> path.dir]
      ELSE [threw |-> FALSE, mem |-> stored,
            files |-> MapSet(fl, id, JsonStringify(merged)), dir |-> path.dir]

\* saveSessionState: [threw, mem, files, dir]
saveSessionState(mem, fl, dir, id, state, persistToFile, fault) ==
  LET stored == MapSet(mem, id, <<state>>)
      path == getSessionStatePath(dir, fault)
  IN  IF ~persistToFile
      THEN [threw |-> FALSE, mem |-> stored, files |-> fl, dir |-> dir]
      ELSE IF path.threw
      THEN [threw |-> TRUE, mem |-> stored, files |-> fl, dir |-> path.dir]
      ELSE IF fault = "writeFileSync"
      THEN [threw |-> FALSE, mem |-> stored, files |-> fl, dir |-> path.dir]
      ELSE [threw |-> FALSE, mem |-> stored,
            files |-> MapSet(fl, id, JsonStringify(state)), dir |-> path.dir]

\* clearSessionState deleting the file outside any try, before the Map entry
clearSessionState_unguarded(mem, fl, dir, id, fault) ==
  LET removed == MapDelete(mem, id)
      path == getSessionStatePath(dir, fault)
  IN  IF path.threw
      THEN [threw |-> TRUE, mem |-> mem, files |-> fl, dir |-> path.dir]
      ELSE IF id \in DOMAIN fl /\ fault = "unlinkSync"
      THEN [threw |-> TRUE, mem |-> mem, files |-> fl, dir |-> path.dir]
      ELSE IF id \in DOMAIN fl
      THEN [threw |-> FALSE, mem |-> removed, files |-> MapDelete(fl, id), dir |-> path.dir]
      ELSE [threw |-> FALSE, mem |-> removed, files |-> fl, dir |-> path.dir]

\* clearSessionState: [threw, mem, files, dir]
clearSessionState(mem, fl, dir, id, fault) ==
  LET removed == MapDelete(mem, id)
      path == getSessionStatePath(dir, fault)
  IN  IF path.threw
      THEN [threw |-> TRUE, mem |-> removed, files |-> fl, dir |-> path.dir]
      ELSE IF id \in DOMAIN fl /\ fault # "unlinkSync"
      THEN [threw |-> FALSE, mem |-> removed, files |-> MapDelete(fl, id), dir |-> path.dir]
      ELSE [threw |-> FALSE, mem |-> removed, files |-> fl, dir |-> path.dir]

-----------------------------------------------------------------------------
(* formatChainReminder and the literals of the reminders.                  *)

\* U+2192, the arrow that opens an inline action line
ARROW == "U+2192"

\* U+0060, the backtick around a shell command
BACKTICK == "U+0060"

tBash ==
  <<"b", "a", "s", "h">>

sActive ==
  <<"a", "c", "t", "i", "v", "e">>

sGateFragment ==
  <<"G", "a", "t", "e", ":", " ">>

sVerifyFragment ==
  <<"V", "e", "r", "i", "f", "y", ":", " ">>

sOfMax ==
  <<"/", "5">>

sJoin ==
  <<" ", "|", " ">>

sInlineVerifyHead ==
  <<ARROW, " ", "S", "h", "e", "l", "l", " ", "v", "e", "r", "i", "f", "y", ":", " ",
    BACKTICK>>

sInlineVerifyTail ==
  <<BACKTICK, " ", "w", "i", "l", "l", " ", "v", "a", "l", "i", "d", "a", "t", "e">>

sInlineGate ==
  <<ARROW, " ", "G", "A", "T", "E", "_", "R", "E", "V", "I", "E", "W", ":", " ", "P",
    "A", "S", "S", "|", "F", "A", "I", "L", " ", "-", " ", "<", "r", "e", "a", "s", "o",
    "n", ">">>

sInlineChainHead ==
  <<ARROW, " ", "p", "r", "o", "m", "p", "t", "_", "e", "n", "g", "i", "n", "e", "(",
    "c", "h", "a", "i", "n", "_", "i", "d", ":", "\"">>

sInlineChainTail ==
  <<"\"", ")", " ", "t", "o", " ", "c", "o", "n", "t", "i", "n", "u", "e">>

sChain ==
  <<"[", "C", "h", "a", "i", "n", "]", " ">>

sStep ==
  <<"S", "t", "e", "p", " ">>

sDashStep ==
  <<" ", "-", " ", "S", "t", "e", "p", " ">>

sGate ==
  <<"[", "G", "a", "t", "e", "]", " ">>

sGateRespond ==
  <<" ", "-", " ", "R", "e", "s", "p", "o", "n", "d", ":", " ", "G", "A", "T", "E", "_",
    "R", "E", "V", "I", "E", "W", ":", " ", "P", "A", "S", "S", "|", "F", "A", "I", "L",
    " ", "-", " ", "<", "r", "e", "a", "s", "o", "n", ">">>

sVerify ==
  <<"[", "V", "e", "r", "i", "f", "y", "]", " ", BACKTICK>>

sVerifyAttempt ==
  <<BACKTICK, " ", "-", " ", "A", "t", "t", "e", "m", "p", "t", " ">>

sVerifyInstruction ==
  <<"R", "u", "n", " ", "i", "m", "p", "l", "e", "m", "e", "n", "t", "a", "t", "i", "o",
    "n", ",", " ", "t", "h", "e", "n", " ", "p", "r", "o", "m", "p", "t", "_", "e", "n",
    "g", "i", "n", "e", " ", "v", "a", "l", "i", "d", "a", "t", "e", "s", " ", "w", "i",
    "t", "h", " ", "s", "h", "e", "l", "l", " ", "c", "o", "m", "m", "a", "n", "d">>

sCompactionHeader ==
  <<"#", "#", " ", "C", "h", "a", "i", "n", " ", "S", "t", "a", "t", "e", " ", "(", "p",
    "r", "e", "s", "e", "r", "v", "e", " ", "a", "c", "r", "o", "s", "s", " ", "c", "o",
    "m", "p", "a", "c", "t", "i", "o", "n", ")", NL>>

sRespond ==
  <<" ", " ", "R", "e", "s", "p", "o", "n", "d", ":", " ", "G", "A", "T", "E", "_", "R",
    "E", "V", "I", "E", "W", ":", " ", "P", "A", "S", "S", "|", "F", "A", "I", "L", " ",
    "-", " ", "<", "r", "e", "a", "s", "o", "n", ">">>

sCheck ==
  <<" ", " ", "C", "h", "e", "c", "k", ":", " ">>

sContinue ==
  <<" ", "-", " ", "c", "a", "l", "l", " ", "p", "r", "o", "m", "p", "t", "_", "e", "n",
    "g", "i", "n", "e", " ", "t", "o", " ", "c", "o", "n", "t", "i", "n", "u", "e">>

DigitChar == [d \in 0..9 |->
                CASE d = 0 -> "0" [] d = 1 -> "1" [] d = 2 -> "2" [] d = 3 -> "3"
                  [] d = 4 -> "4" [] d = 5 -> "5" [] d = 6 -> "6" [] d = 7 -> "7"
                  [] d = 8 -> "8" [] d = 9 -> "9"]

\* the decimal text of a non-negative integer, as a template literal renders it
RECURSIVE IntToStr(_)
IntToStr(n) == IF n < 10 THEN <<DigitChar[n]>> ELSE IntToStr(n \div 10) \o <<DigitChar[n % 10]>>

\* the attempts as they are stored, 0 included
VerifyAttempts_asStored(state) == state.shell_verify_attempts

\* state.shell_verify_attempts || 1
VerifyAttempts(state) ==
  IF state.shell_verify_attempts # 0 THEN state.shell_verify_attempts ELSE 1

\* the status fragments with Verify before Gate
InlineParts_verifyFirst(state) ==
  (IF state.current_step > 0
   THEN << <<"[">> \o (IF state.chain_id # <<>> THEN state.chain_id ELSE sActive)
           \o <<"]", " ">> \o IntToStr(state.current_step) \o <<"/">>
           \o IntToStr(state.total_steps) >>
   ELSE <<>>)
  \o (IF Truthy(state.pending_shell_verify)
      THEN << sVerifyFragment \o IntToStr(VerifyAttempts(state)) \o sOfMax >>
      ELSE <<>>)
  \o (IF Truthy(state.pending_gate)
      THEN << sGateFragment \o state.pending_gate[1] >>
      ELSE <<>>)

\* line 1 of the inline reminder: the status fragments
InlineParts(state) ==
  (IF state.current_step > 0
   THEN << <<"[">> \o (IF state.chain_id # <<>> THEN state.chain_id ELSE sActive)
           \o <<"]", " ">> \o IntToStr(state.current_step) \o <<"/">>
           \o IntToStr(state.total_steps) >>
   ELSE <<>>)
  \o (IF Truthy(state.pending_gate)
      THEN << sGateFragment \o state.pending_gate[1] >>
      ELSE <<>>)
  \o (IF Truthy(state.pending_shell_verify)
      THEN << sVerifyFragment \o IntToStr(VerifyAttempts(state)) \o sOfMax >>
      ELSE <<>>)

\* the inline action with the gate tested before the shell verification
InlineAction_gateFirst(state) ==
  IF Truthy(state.pending_gate)
  THEN sInlineGate
  ELSE IF Truthy(state.pending_shell_verify)
  THEN sInlineVerifyHead \o state.pending_shell_verify[1] \o sInlineVerifyTail
  ELSE IF state.current_step > 0 /\ state.current_step < state.total_steps
  THEN sInlineChainHead \o state.chain_id \o sInlineChainTail
  ELSE <<>>

\* line 2 of the inline reminder: the action
InlineAction(state) ==
  IF Truthy(state.pending_shell_verify)
  THEN sInlineVerifyHead \o state.pending_shell_verify[1] \o sInlineVerifyTail
  ELSE IF Truthy(state.pending_gate)
  THEN sInlineGate
  ELSE IF state.current_step > 0 /\ state.current_step < state.total_steps
  THEN sInlineChainHead \o state.chain_id \o sInlineChainTail
  ELSE <<>>

\* the lines of the full reminder with the gate before the chain
FullLines_gateFirst(state) ==
  (IF Truthy(state.pending_gate)
   THEN << sGate \o state.pending_gate[1] \o sGateRespond >>
   ELSE <<>>)
  \o (IF state.current_step > 0
      THEN IF state.chain_id # <<>>
           THEN << sChain \o state.chain_id \o sDashStep \o IntToStr(state.current_step)
                   \o <<"/">> \o IntToStr(state.total_steps) >>
           ELSE << sChain \o sStep \o IntToStr(state.current_step)
                   \o <<"/">> \o IntToStr(state.total_steps) >>
      ELSE <<>>)
  \o (IF Truthy(state.pending_shell_verify)
      THEN << sVerify \o state.pending_shell_verify[1] \o sVerifyAttempt
              \o IntToStr(VerifyAttempts(state)) \o sOfMax,
              sVerifyInstruction >>
      ELSE <<>>)

\* the lines of the full reminder
FullLines(state) ==
  (IF state.current_step > 0
   THEN IF state.chain_id # <<>>
        THEN << sChain \o state.chain_id \o sDashStep \o IntToStr(state.current_step)
                \o <<"/">> \o IntToStr(state.total_steps) >>
        ELSE << sChain \o sStep \o IntToStr(state.current_step)
                \o <<"/">> \o IntToStr(state.total_steps) >>
   ELSE <<>>)
  \o (IF Truthy(state.pending_gate)
      THEN << sGate \o state.pending_gate[1] \o sGateRespond >>
      ELSE <<>>)
  \o (IF Truthy(state.pending_shell_verify)
      THEN << sVerify \o state.pending_shell_verify[1] \o sVerifyAttempt
              \o IntToStr(VerifyAttempts(state)) \o sOfMax,
              sVerifyInstruction >>
      ELSE <<>>)

formatChainReminder(state, mode) ==
  IF mode = "inline"
  THEN LET line1 == Join(InlineParts(state), sJoin)
       IN  IF line1 # <<>> THEN Trim(line1 \o <<NL>> \o InlineAction(state)) ELSE <<>>
  ELSE Join(FullLines(state), <<NL>>)

-----------------------------------------------------------------------------
(* The inputs of the model.                                                *)

fStep13 ==
  <<"S", "t", "e", "p", " ", "1", " ", "o", "f", " ", "3">>

fStep03 ==
  <<"S", "t", "e", "p", " ", "0", " ", "o", "f", " ", "3">>

fStep33 ==
  <<"S", "t", "e", "p", " ", "3", " ", "o", "f", " ", "3">>

fChainId ==
  <<"c", "h", "a", "i", "n", "-", "b", "#", "9">>

fGateWord ==
  <<"G", "a", "t", "e">>

fHeading ==
  <<"#", "#", "#", " ", "g", "q">>

fBulletLine ==
  <<"-", " ", "c", "1">>

fVerifyMarker ==
  <<"S", "h", "e", "l", "l", " ", "v", "e", "r", "i", "f", "i", "c", "a", "t", "i", "o",
    "n", ":">>

fCommand ==
  <<"n", "p", "m", " ", "t", "e", "s", "t">>

fAttempt ==
  <<"A", "t", "t", "e", "m", "p", "t", " ", "2", "/", "5">>

fPlain ==
  <<"o", "k">>

tMcpPromptEngine ==
  <<"m", "c", "p", ".", "p", "r", "o", "m", "p", "t", "_", "e", "n", "g", "i", "n",
    "e">>

sArgChainId ==
  <<"c", "h", "a", "i", "n", "-", "a", "r", "g">>

sOldChainId ==
  <<"c", "h", "a", "i", "n", "-", "o", "l", "d">>

sGateName ==
  <<"c", "q">>

sCriterion ==
  <<"t", "y", "p", "e", "s">>

sPromptId ==
  <<"a", "n">>

\* the responses the handlers are given
rPlain == fPlain

rStepChain == fStep13 \o <<NL>> \o fChainId

rGate == fGateWord \o <<NL>> \o fHeading \o <<NL>> \o fBulletLine

rVerify == fVerifyMarker \o <<" ">> \o fCommand \o <<NL>> \o fAttempt

Responses == {rPlain, rStepChain, rGate, rVerify}

\* input.tool: missing, another tool, a prompt_engine tool
OtherTools == {<<>>, <<tBash>>}

EngineTools == {<<tMcpPromptEngine>>}


\* args.chain_id: missing, an empty string, a string, a number
ArgChainIds ==
  {[type |-> "undefined", value |-> <<>>],
   [type |-> "string", value |-> <<>>],
   [type |-> "string", value |-> sArgChainId],
   [type |-> "number", value |-> <<"7">>]}

ArgUndefined == [type |-> "undefined", value |-> <<>>]

\* the inputs of tool.execute.after.  The handler returns before it reads the
\* output and the arguments when the tool is no prompt_engine tool, and before
\* it reads the arguments when the response has no marker; what it does not
\* read is left out
ToolInputs ==
  [tool : EngineTools, output : {<<rStepChain>>, <<rGate>>, <<rVerify>>}, chain_id : ArgChainIds]
  \cup [tool : EngineTools, output : {<<>>, <<rPlain>>}, chain_id : {ArgUndefined}]
  \cup [tool : OtherTools, output : {<<>>}, chain_id : {ArgUndefined}]

\* the session fields of an event: each present or missing, and when both
\* are present they name different sessions
SessionFields ==
  {[sessionID |-> <<>>, session_id |-> <<>>],
   [sessionID |-> <<"s1">>, session_id |-> <<>>],
   [sessionID |-> <<>>, session_id |-> <<"s1">>],
   [sessionID |-> <<"default">>, session_id |-> <<"s1">>]}

EventTypes == {"session.created", "session.deleted"}

\* states a caller of the store saves, and states found on disk
StateA ==
  [chain_id |-> sOldChainId,
   current_step |-> 2,
   total_steps |-> 5,
   pending_gate |-> <<sGateName>>,
   gate_criteria |-> <<sCriterion>>,
   last_prompt_id |-> sPromptId,
   pending_shell_verify |-> <<>>,
   shell_verify_attempts |-> 0]

StateIdle == [EmptyState EXCEPT !.last_prompt_id = sPromptId]

SampleStates == {StateA, StateIdle}

\* what an earlier process may have left in a session file
DiskContents == {JsonStringify(StateA), JsonStringify(StateIdle), MalformedText}

\* the same, for the direct calls of the store
StoreDiskContents == DiskContents \cup {JsonNullText}

\* the pieces the texts given to the parser are made of
Fragments ==
  {fStep13, fStep03, fChainId, fGateWord, fHeading, fBulletLine, fVerifyMarker,
   fCommand, fAttempt, fPlain, <<" ">>, <<NL>>}

\* the number of pieces of a text
MaxFrags == 3

RECURSIVE TextsOf(_)
TextsOf(n) ==
  IF n = 0 THEN {<<>>}
  ELSE LET shorter == TextsOf(n - 1)
       IN  shorter \cup {t \o f : t \in shorter, f \in Fragments}

Texts == TextsOf(MaxFrags)

\* the number of session files that exist when the process starts
MaxInitFiles == 1

FilesOf(contents) ==
  UNION {[S -> contents] : S \in {T \in SUBSET SessionIds : Cardinality(T) <= MaxInitFiles}}

InitFiles == FilesOf(DiskContents)

-----------------------------------------------------------------------------
(* The handlers of the plugin.                                             *)

wPromptEngine ==
  <<"p", "r", "o", "m", "p", "t", "_", "e", "n", "g", "i", "n", "e">>

\* criteria.slice(0, 3) and c.slice(0, 40) of the gate reminder
MaxShownCriteria == 3

MaxCriterionLen == 40

\* extractSessionId preferring the session_id field
extractSessionId_snakeFirst(input) ==
  IF input.session_id # <<>> THEN input.session_id[1]
  ELSE IF input.sessionID # <<>> THEN input.sessionID[1]
  ELSE "default"

\* input.sessionID ?? input.session_id ?? "default"
extractSessionId(input) ==
  IF input.sessionID # <<>> THEN input.sessionID[1]
  ELSE IF input.session_id # <<>> THEN input.session_id[1]
  ELSE "default"

\* IsOverride without the test for the empty string
IsOverride_anyString(arg) == arg.type = "string"

\* the override test: typeof inputChainId === "string" && inputChainId
IsOverride(arg) == arg.type = "string" /\ arg.value # <<>>

\* ContextLines with the chain line on the final step too
ContextLines_finalStep(state) ==
  (IF Truthy(state.pending_gate)
   THEN << sGate \o state.pending_gate[1], sRespond >>
        \o (IF state.gate_criteria # <<>>
            THEN << sCheck \o Join([k \in 1..Len(Slice(state.gate_criteria, MaxShownCriteria)) |->
                                      Slice(state.gate_criteria[k], MaxCriterionLen)], sJoin) >>
            ELSE <<>>)
   ELSE <<>>)
  \o (IF /\ state.current_step > 0 /\ state.total_steps > 0
         /\ state.current_step <= state.total_steps
      THEN << sChain \o sStep \o IntToStr(state.current_step) \o <<"/">>
              \o IntToStr(state.total_steps) \o sContinue >>
      ELSE <<>>)

\* the lines tool.execute.after returns for injection
ContextLines(state) ==
  (IF Truthy(state.pending_gate)
   THEN << sGate \o state.pending_gate[1], sRespond >>
        \o (IF state.gate_criteria # <<>>
            THEN << sCheck \o Join([k \in 1..Len(Slice(state.gate_criteria, MaxShownCriteria)) |->
                                      Slice(state.gate_criteria[k], MaxCriterionLen)], sJoin) >>
            ELSE <<>>)
   ELSE <<>>)
  \o (IF /\ state.current_step > 0 /\ state.total_steps > 0
         /\ state.current_step < state.total_steps
      THEN << sChain \o sStep \o IntToStr(state.current_step) \o <<"/">>
              \o IntToStr(state.total_steps) \o sContinue >>
      ELSE <<>>)

\* a criterion longer than the reminder shows
MaxLongCriterion == 45

\* responses for the context tool.execute.after returns: those above, a
\* chain on its final step, a chain in a gate section with a long criterion
\* before three short ones, a gate without criteria, criteria without a gate
ContextResponses ==
  Responses
  \cup {fStep33,
        wStep \o <<" ", "2", "/", "4", NL>> \o fGateWord \o <<NL>> \o fHeading
          \o <<NL, "-", " ">>
          \o [i \in 1..MaxLongCriterion |-> "x"] \o <<NL>> \o fBulletLine \o <<NL>>
          \o fBulletLine \o <<NL>> \o fBulletLine,
        fGateWord \o <<NL>> \o fHeading \o <<NL>>,
        fStep13 \o <<NL>> \o fGateWord \o <<NL>> \o fBulletLine}

\* the parser's result for each response of the model, computed once
ParsedResponses ==
  {<<r, parsePromptEngineResponse([kind |-> "string", text |-> r, blocks |-> <<>>])>> :
     r \in ContextResponses \cup {<<>>}}

\* parsePromptEngineResponse(response), for a response of the model
ParseResponse(response) == (CHOOSE p \in ParsedResponses : p[1] = response)[2]

\* tool.execute.after dropping the session's state when a prompt_engine
\* response carries no signal
toolExecuteAfter_clearOnNoSignal(mem, fl, dir, input, fault) ==
  LET sessionId == extractSessionId(input)
      response == IF input.output # <<>> THEN input.output[1] ELSE <<>>
      Save(state) ==
        LET save == saveSessionState(mem, fl, dir, sessionId, state, FALSE, fault)
            lines == ContextLines(state)
        IN  [threw |-> save.threw, saved |-> <<state>>,
             context |-> IF lines # <<>> THEN << Join(lines, <<NL>>) >> ELSE <<>>,
             mem |-> save.mem, files |-> save.files, dir |-> save.dir]
      Handle(parsed) ==
        IF parsed = <<>>
        THEN [threw |-> FALSE, saved |-> <<>>, context |-> <<>>,
              mem |-> MapDelete(mem, sessionId), files |-> fl, dir |-> dir]
        ELSE Save(IF IsOverride(input.chain_id)
                  THEN [parsed[1] EXCEPT !.chain_id = input.chain_id.value]
                  ELSE parsed[1])
  IN  IF input.tool = <<>> \/ ~Includes(input.tool[1], wPromptEngine)
      THEN [threw |-> FALSE, saved |-> <<>>, context |-> <<>>,
            mem |-> mem, files |-> fl, dir |-> dir]
      ELSE Handle(ParseResponse(response))

\* tool.execute.after: [threw, saved, context, mem, files, dir]; saved is the
\* state handed to saveSessionState (<<>>: none), context the returned
\* context (<<>>: nothing returned)
toolExecuteAfter(mem, fl, dir, input, fault) ==
  LET sessionId == extractSessionId(input)
      response == IF input.output # <<>> THEN input.output[1] ELSE <<>>
      Save(state) ==
        LET save == saveSessionState(mem, fl, dir, sessionId, state, FALSE, fault)
            lines == ContextLines(state)
        IN  [threw |-> save.threw, saved |-> <<state>>,
             context |-> IF lines # <<>> THEN << Join(lines, <<NL>>) >> ELSE <<>>,
             mem |-> save.mem, files |-> save.files, dir |-> save.dir]
      Handle(parsed) ==
        IF parsed = <<>>
        THEN [threw |-> FALSE, saved |-> <<>>, context |-> <<>>,
              mem |-> mem, files |-> fl, dir |-> dir]
        ELSE Save(IF IsOverride(input.chain_id)
                  THEN [parsed[1] EXCEPT !.chain_id = input.chain_id.value]
                  ELSE parsed[1])
  IN  IF input.tool = <<>> \/ ~Includes(input.tool[1], wPromptEngine)
      THEN [threw |-> FALSE, saved |-> <<>>, context |-> <<>>,
            mem |-> mem, files |-> fl, dir |-> dir]
      ELSE Handle(ParseResponse(response))

\* the test of the compaction handler without the shell verification
hasActive_noVerify(state) ==
  \/ state.current_step > 0
  \/ state.pending_gate # <<>>

\* the test of the compaction handler
hasActive(state) ==
  \/ state.current_step > 0
  \/ state.pending_gate # <<>>
  \/ state.pending_shell_verify # <<>>

\* experimental.session.compacting: [threw, loaded, pushed, mem, dir]; pushed
\* is what the handler appends to output.context
sessionCompacting(mem, fl, dir, input, fault) ==
  LET load == loadSessionState(mem, fl, dir, extractSessionId(input), fault)
  IN  [threw |-> load.threw,
       loaded |-> load.result,
       pushed |-> IF ~load.threw /\ load.result # <<>> /\ hasActive(load.result[1])
                  THEN << sCompactionHeader \o formatChainReminder(load.result[1], "full") >>
                  ELSE <<>>,
       mem |-> load.mem,
       dir |-> load.dir]

\* event: [threw, mem, files, dir]
sessionEvent(mem, fl, dir, event, fault) ==
  IF event.type = "session.deleted"
  THEN clearSessionState(mem, fl, dir, extractSessionId(event), fault)
  ELSE [threw |-> FALSE, mem |-> mem, files |-> fl, dir |-> dir]

-----------------------------------------------------------------------------
(* State.                                                                  *)
(*   sessionStates  the in-memory Map: session id -> ChainState or null    *)
(*   files          the session files that exist: session id -> content    *)
(*   dirExists      whether the sessions directory exists                  *)
(*   last           the call or event handled last, with what it returned  *)
(*   cleared        the sessions deleted by a session.deleted event and    *)
(*                  not given a state by a prompt_engine response since    *)

EmptyMap == [k \in {} |-> <<>>]

\* the state when the module has been loaded: an empty Map, and whatever an
\* earlier process left in the sessions directory
Init ==
  /\ sessionStates = EmptyMap
  /\ dirExists \in BOOLEAN
  /\ files \in (IF dirExists THEN InitFiles ELSE {EmptyMap})
  /\ last = [op |-> "init"]
  /\ cleared = {}

\* what is kept of the state a session had before an event: its chain_id and
\* current_step ("" and 0 when it had no state)
Progress(entry) ==
  IF entry = <<>> THEN [chain_id |-> <<>>, current_step |-> 0]
  ELSE [chain_id |-> entry[1].chain_id, current_step |-> entry[1].current_step]

\* the host delivers a tool.execute.after event
ToolExecuteAfter ==
  \E ti \in ToolInputs, sf \in SessionFields :
    LET input == [tool |-> ti.tool, output |-> ti.output, chain_id |-> ti.chain_id,
                  sessionID |-> sf.sessionID, session_id |-> sf.session_id]
        id == extractSessionId(input)
    IN \E out \in {toolExecuteAfter(sessionStates, files, dirExists, input, "none")} :
        /\ sessionStates' = out.mem
        /\ files' = out.files
        /\ dirExists' = out.dir
        /\ cleared' = IF out.saved # <<>> THEN cleared \ {id} ELSE cleared
        /\ last' = [op |-> "tool.execute.after", id |-> id, session |-> sf,
                    tool |-> ti.tool,
                    output |-> ti.output, chain_id |-> ti.chain_id,
                    threw |-> out.threw,
                    before |-> Progress(MapGet(sessionStates, id)),
                    saved |-> out.saved, context |-> out.context]

\* the host delivers an experimental.session.compacting event
SessionCompacting ==
  \E sf \in SessionFields, fault \in LoadFaults :
    LET id == extractSessionId(sf)
    IN \E out \in {sessionCompacting(sessionStates, files, dirExists, sf, fault)} :
        /\ sessionStates' = out.mem
        /\ dirExists' = out.dir
        /\ UNCHANGED <<files, cleared>>
        /\ last' = [op |-> "experimental.session.compacting", id |-> id, session |-> sf,
                    threw |-> out.threw, loaded |-> out.loaded, pushed |-> out.pushed]

\* the host delivers a session lifecycle event
SessionEvent ==
  \E type \in EventTypes, sf \in SessionFields, fault \in ClearFaults :
    LET event == [type |-> type, sessionID |-> sf.sessionID, session_id |-> sf.session_id]
        id == extractSessionId(event)
    IN \E out \in {sessionEvent(sessionStates, files, dirExists, event, fault)} :
        /\ sessionStates' = out.mem
        /\ files' = out.files
        /\ dirExists' = out.dir
        /\ cleared' = IF type = "session.deleted" THEN cleared \cup {id} ELSE cleared
        /\ last' = [op |-> type, id |-> id, session |-> sf, threw |-> out.threw]

Next == ToolExecuteAfter \/ SessionCompacting \/ SessionEvent

Spec == Init /\ [][Next]_vars

\* the plugin loaded where no earlier process left a session file: whatever
\* the store holds later was put there by the handlers
HandlerInit ==
  /\ sessionStates = EmptyMap
  /\ dirExists \in BOOLEAN
  /\ files = EmptyMap
  /\ last = [op |-> "init"]
  /\ cleared = {}

HandlerSpec == HandlerInit /\ [][Next]_vars

-----------------------------------------------------------------------------
(* The store called directly: saveSessionState, loadSessionState and       *)
(* clearSessionState in any order, on any session, with any file-system    *)
(* outcome.                                                                *)

StoreInit ==
  /\ sessionStates = EmptyMap
  /\ dirExists \in BOOLEAN
  /\ files \in (IF dirExists THEN FilesOf(StoreDiskContents) ELSE {EmptyMap})
  /\ last = [op |-> "init"]
  /\ cleared = {}

\* the call made before a load: its name, session and, for a save, arguments
Call(l) ==
  IF l.op = "saveSessionState"
  THEN [op |-> l.op, id |-> l.id, state |-> <<l.state>>, persistToFile |-> l.persistToFile]
  ELSE IF l.op = "init"
  THEN [op |-> l.op, id |-> "", state |-> <<>>, persistToFile |-> FALSE]
  ELSE [op |-> l.op, id |-> l.id, state |-> <<>>, persistToFile |-> FALSE]

SaveCall ==
  \E id \in SessionIds, state \in SampleStates, persistToFile \in BOOLEAN, fault \in SaveFaults :
    \E out \in {saveSessionState(sessionStates, files, dirExists, id, state, persistToFile, fault)} :
      /\ sessionStates' = out.mem
      /\ files' = out.files
      /\ dirExists' = out.dir
      /\ UNCHANGED cleared
      /\ last' = [op |-> "saveSessionState", id |-> id, state |-> state,
                  persistToFile |-> persistToFile, fault |-> fault, threw |-> out.threw]

LoadCall ==
  \E id \in SessionIds, fault \in LoadFaults :
    \E out \in {loadSessionState(sessionStates, files, dirExists, id, fault)} :
      /\ sessionStates' = out.mem
      /\ dirExists' = out.dir
      /\ UNCHANGED <<files, cleared>>
      /\ last' = [op |-> "loadSessionState", id |-> id, fault |-> fault,
                  threw |-> out.threw, result |-> out.result, prev |-> Call(last)]

ClearCall ==
  \E id \in SessionIds, fault \in ClearFaults :
    \E out \in {clearSessionState(sessionStates, files, dirExists, id, fault)} :
      /\ sessionStates' = out.mem
      /\ files' = out.files
      /\ dirExists' = out.dir
      /\ UNCHANGED cleared
      /\ last' = [op |-> "clearSessionState", id |-> id, fault |-> fault, threw |-> out.threw]

StoreNext == SaveCall \/ LoadCall \/ ClearCall

StoreSpec == StoreInit /\ [][StoreNext]_vars

-----------------------------------------------------------------------------
(* The parser applied to a text.                                           *)

\* further markers, for the texts that hold several markers or spell them
\* in other ways
fAttempt75 ==
  <<"A", "t", "t", "e", "m", "p", "t", " ", "7", "/", "5">>

fStep37 ==
  <<"S", "t", "e", "p", " ", "3", " ", "o", "f", " ", "7">>

fProgress24 ==
  <<"P", "r", "o", "g", "r", "e", "s", "s", " ", "2", "/", "4">>

fChainOther ==
  <<"c", "h", "a", "i", "n", "_", "x", "2">>

cOf ==
  <<" ", "o", "f", " ">>

\* texts of up to n markers, digits and line breaks
RECURSIVE MarkerTextsOf(_)
MarkerTextsOf(n) ==
  IF n = 0 THEN {<<>>}
  ELSE LET shorter == MarkerTextsOf(n - 1)
           fragments == {fStep13, fStep37, fProgress24, fChainId, fChainOther,
                         fAttempt, fAttempt75, <<"0">>, <<NL>>}
       IN  shorter \cup {t \o f : t \in shorter, f \in fragments}

MarkerTexts == MarkerTextsOf(MaxFrags)

\* the spellings of the words of a step marker
StepWords ==
  {wStep, wstep, <<"S", "T", "E", "P">>, <<"s", "T", "E", "P">>, wProgress, wprogress,
   <<"P", "R", "O", "G", "R", "E", "S", "S">>}

\* of in lower case, in upper case and capitalised, and the slash
Connectors == {cOf, <<" ", "O", "F", " ">>, <<" ", "O", "f", " ">>, wSlash}

\* the step marker 2 of 5 in one spelling
StepMarker(w, c) == w \o <<" ", "2">> \o c \o <<"5">>

\* what follows a spelled marker: nothing, or a shell verification
CaseTails == {<<>>, <<NL>> \o rVerify}

CaseTexts ==
  {StepMarker(w, c) \o tail : w \in StepWords, c \in Connectors, tail \in CaseTails}

\* a step marker followed by two more markers, each on a line of its own
RepeatedTexts ==
  LET markers == {fStep37, fChainId, fChainOther, fAttempt, fAttempt75}
  IN  {s \o <<NL>> \o a \o <<NL>> \o b :
         s \in {fStep13, fProgress24}, a \in markers, b \in markers}

\* a gate section: a heading and two bullet lines
rInlineGates ==
  <<"#", "#", " ", "I", "n", "l", "i", "n", "e", " ", "G", "a", "t", "e", "s", NL, "#",
    "#", "#", " ", "c", "o", "d", "e", "-", "q", "u", "a", "l", "i", "t", "y", NL, "-",
    " ", "C", "h", "e", "c", "k", " ", "t", "y", "p", "e", "s", NL, "-", " ", "C", "h",
    "e", "c", "k", " ", "t", "e", "s", "t", "s">>

\* that section, whole and cut short, and the one after a step marker
GateTexts ==
  {rInlineGates,
   \* the section cut after its heading, which is then the last line
   SubSeq(rInlineGates, 1, 32),
   <<"S", "t", "e", "p", " ", "1", " ", "o", "f", " ", "2", NL, "#", "#", " ", "I", "n",
      "l", "i", "n", "e", " ", "G", "a", "t", "e", "s", NL, "#", "#", "#", " ", "c", "o",
      "d", "e", "-", "q", "u", "a", "l", "i", "t", "y", NL, "-", " ", "C", "h", "e", "c",
      "k", " ", "f", "o", "r", " ", "t", "y", "p", "e", " ", "e", "r", "r", "o", "r",
      "s", NL, "-", " ", "V", "e", "r", "i", "f", "y", " ", "t", "e", "s", "t", " ", "c",
      "o", "v", "e", "r", "a", "g", "e">>}

ParserInit ==
  /\ sessionStates = EmptyMap
  /\ dirExists = FALSE
  /\ files = EmptyMap
  /\ cleared = {}
  /\ \E text \in Texts \cup MarkerTexts \cup RepeatedTexts \cup CaseTexts \cup GateTexts :
       last = [op |-> "text", text |-> text]

ParseText ==
  /\ last.op \in {"text", "parse"}
  /\ last' = [op |-> "parse", text |-> last.text,
              result |-> parsePromptEngineResponse(
                           [kind |-> "string", text |-> last.text, blocks |-> <<>>])]
  /\ UNCHANGED <<sessionStates, files, dirExists, cleared>>

ParserNext == ParseText

ParserSpec == ParserInit /\ [][ParserNext]_vars

-----------------------------------------------------------------------------
(* The directory of the session files: getWorkspaceRoot, getCacheDir and   *)
(* getSessionStateDir.  A path is the sequence of its segments; a value    *)
(* that may be unset is <<>> or <<path>>, the empty string <<"">>.         *)

\* directories an environment variable or the project context can name
WorkspacePaths == {<<"w1">>, <<"w2">>}

\* the project root the module finds from import.meta.url
ModuleRoot == <<"pkg">>

\* a variable or argument: unset, the empty string, or a path
PathValues == {<<>>, << <<"">> >>} \cup {<<w>> : w \in WorkspacePaths}

\* import.meta.url: not available, or available with or without a server
\* directory under the project root
ModuleKinds == {"unavailable", "noServer", "server"}

\* value && existsSync(value)
IsUsable(value, existing) ==
  value # <<>> /\ value[1] # <<"">> /\ value[1] \in existing

\* getWorkspaceRoot with the plugin root tried before the user's workspace
getWorkspaceRoot_rootFirst(env, projectDir, existing, module) ==
  IF IsUsable(env.OPENCODE_PLUGIN_ROOT, existing) THEN env.OPENCODE_PLUGIN_ROOT
  ELSE IF IsUsable(env.MCP_WORKSPACE, existing) THEN env.MCP_WORKSPACE
  ELSE IF IsUsable(projectDir, existing) THEN projectDir
  ELSE IF module = "server" THEN <<ModuleRoot>>
  ELSE <<>>

\* getWorkspaceRoot: the workspace, <<>> for null
getWorkspaceRoot(env, projectDir, existing, module) ==
  IF IsUsable(env.MCP_WORKSPACE, existing) THEN env.MCP_WORKSPACE
  ELSE IF IsUsable(env.OPENCODE_PLUGIN_ROOT, existing) THEN env.OPENCODE_PLUGIN_ROOT
  ELSE IF IsUsable(projectDir, existing) THEN projectDir
  ELSE IF module = "server" THEN <<ModuleRoot>>
  ELSE <<>>

\* the fallback the session store passes to getCacheDir
FALLBACK_SESSION_DIR(module) ==
  IF module = "unavailable" THEN <<".", "server", "cache", "sessions">>
  ELSE ModuleRoot \o <<"server", "cache", "sessions">>

getCacheDir(fallback, env, projectDir, existing, module) ==
  LET workspace == getWorkspaceRoot(env, projectDir, existing, module)
  IN  IF workspace # <<>> THEN workspace[1] \o <<"server", "cache">> ELSE fallback

getSessionStateDir(env, projectDir, existing, module) ==
  getCacheDir(FALLBACK_SESSION_DIR(module), env, projectDir, existing, module)
    \o <<"sessions">>

\* a process: its environment, the project directory of the plugin context,
\* the directories that exist and the module's view of itself
WorkspaceInit ==
  /\ sessionStates = EmptyMap
  /\ files = EmptyMap
  /\ dirExists = FALSE
  /\ cleared = {}
  /\ \E mcp \in PathValues, root \in PathValues, projectDir \in PathValues,
        existing \in SUBSET WorkspacePaths, module \in ModuleKinds :
       last = [op |-> "process",
               env |-> [MCP_WORKSPACE |-> mcp, OPENCODE_PLUGIN_ROOT |-> root],
               projectDir |-> projectDir, existing |-> existing, module |-> module]

\* load, save or clear resolves the directory of the session files
ResolveSessionStateDir ==
  /\ last.op = "process"
  /\ last' = [last EXCEPT !.op = "resolved"] @@
             [stateDir |-> getSessionStateDir(last.env, last.projectDir,
                                              last.existing, last.module)]
  /\ UNCHANGED <<sessionStates, files, dirExists, cleared>>

WorkspaceNext == ResolveSessionStateDir

WorkspaceSpec == WorkspaceInit /\ [][WorkspaceNext]_vars

-----------------------------------------------------------------------------
(* Uninstalling the hooks from a hooks configuration.  A configuration is  *)
(* a function from the events it has to their lists of hook configs, a     *)
(* hook config a matcher with the commands of its hooks.                   *)

\* HOOK_PATTERNS
HOOK_PATTERNS ==
  {<<"o", "p", "e", "n", "c", "o", "d", "e", "-", "p", "r", "o", "m", "p", "t", "s">>,
   <<"p", "r", "o", "m", "p", "t", "-", "s", "u", "g", "g", "e", "s", "t", ".", "p",
     "y">>,
   <<"p", "o", "s", "t", "-", "p", "r", "o", "m", "p", "t", "-", "e", "n", "g", "i",
     "n", "e", ".", "p", "y">>,
   <<"p", "r", "e", "-", "c", "o", "m", "p", "a", "c", "t", ".", "p", "y">>}

\* commands of hooks: one this package installs, two of other tools
cmdPreCompact ==
  <<"p", "y", "t", "h", "o", "n", "3", " ", "h", "/", "p", "r", "e", "-", "c", "o",
    "m", "p", "a", "c", "t", ".", "p", "y">>

cmdLint ==
  <<"l", "i", "n", "t", ".", "s", "h">>

cmdNotify ==
  <<"n", "o", "t", "i", "f", "y", ".", "s", "h">>

HookCommands == {cmdPreCompact, cmdLint, cmdNotify}

\* the hook configs of the model: one or two hooks under the matcher "*"
MaxHooks == 2

HookConfigs ==
  {[matcher |-> "*", hooks |-> h] :
     h \in UNION {[1..n -> HookCommands] : n \in 1..MaxHooks}}

\* the lists of hook configs an event can have
MaxConfigs == 2

ConfigLists(n) == UNION {[1..k -> HookConfigs] : k \in 1..n}

\* the hooks of a settings.json or hooks.json file: UserPromptSubmit and
\* PostToolUse, each missing or with a list of hook configs
HooksObjects ==
  {[e \in ({"UserPromptSubmit"} \cap u) \cup ({"PostToolUse"} \cap q) |->
      IF e = "UserPromptSubmit" THEN a ELSE b] :
     u \in SUBSET {"UserPromptSubmit"}, q \in SUBSET {"PostToolUse"},
     a \in ConfigLists(MaxConfigs), b \in ConfigLists(1)}

isOurHook(command) == \E pattern \in HOOK_PATTERNS : Includes(command, pattern)

\* hasOurHooks of the configs of an event, <<>> when the event is missing
hasOurHooks(hooks, event) ==
  /\ event \in DOMAIN hooks
  /\ \E i \in 1..Len(hooks[event]) :
       \E j \in 1..Len(hooks[event][i].hooks) : isOurHook(hooks[event][i].hooks[j])

\* filterOurHooks: our hooks taken out of every config, empty configs dropped
filterOurHooks(hookConfigs) ==
  LET IsOther(command) == ~isOurHook(command)
      HasHooks(config) == config.hooks # <<>>
  IN  SelectSeq([i \in 1..Len(hookConfigs) |->
                   [hookConfigs[i] EXCEPT !.hooks = SelectSeq(@, IsOther)]],
                HasHooks)

\* the configs of an event without those that hold one of our hooks
WithoutOurConfigs(hookConfigs) ==
  LET HasNoneOfOurs(config) ==
        ~\E j \in 1..Len(config.hooks) : isOurHook(config.hooks[j])
  IN  SelectSeq(hookConfigs, HasNoneOfOurs)

\* the events of a configuration left with a config after f has been applied
\* to each: the others are deleted
KeepNonEmpty(hooks, events, f(_)) ==
  [e \in {d \in DOMAIN hooks : d \notin events \/ f(hooks[d]) # <<>>} |->
     IF e \in events THEN f(hooks[e]) ELSE hooks[e]]

\* uninstallHooks on the hooks of .claude/settings.json
uninstallHooks(hooks) ==
  IF ~hasOurHooks(hooks, "UserPromptSubmit") THEN hooks
  ELSE KeepNonEmpty(hooks, {"UserPromptSubmit", "PostToolUse", "PreCompact"},
                    filterOurHooks)

\* hasGlobalHooks, hasProjectHooks: a pattern occurs in the serialized file
hasGlobalHooks(hooks) == \E e \in DOMAIN hooks : hasOurHooks(hooks, e)

\* removeFromGlobalHooksJson on the hooks of ~/.claude/hooks/hooks.json
removeFromGlobalHooksJson(hooks) ==
  IF ~hasGlobalHooks(hooks) THEN hooks
  ELSE KeepNonEmpty(hooks, DOMAIN hooks, WithoutOurConfigs)

\* uninstallProjectHooks on the hooks of the project's hooks.json
uninstallProjectHooks(hooks) ==
  IF ~hasGlobalHooks(hooks) THEN hooks
  ELSE KeepNonEmpty(hooks, DOMAIN hooks, WithoutOurConfigs)

\* a hooks file as it is found
HooksInit ==
  /\ sessionStates = EmptyMap
  /\ files = EmptyMap
  /\ dirExists = FALSE
  /\ cleared = {}
  /\ \E hooks \in HooksObjects : last = [op |-> "hooks", hooks |-> hooks]

UninstallHooks ==
  /\ last.op = "hooks"
  /\ last' = [op |-> "uninstallHooks", before |-> last.hooks,
              after |-> uninstallHooks(last.hooks)]
  /\ UNCHANGED <<sessionStates, files, dirExists, cleared>>

RemoveFromGlobalHooksJson ==
  /\ last.op = "hooks"
  /\ last' = [op |-> "removeFromGlobalHooksJson", before |-> last.hooks,
              after |-> removeFromGlobalHooksJson(last.hooks)]
  /\ UNCHANGED <<sessionStates, files, dirExists, cleared>>

UninstallProjectHooks ==
  /\ last.op = "hooks"
  /\ last' = [op |-> "uninstallProjectHooks", before |-> last.hooks,
              after |-> uninstallProjectHooks(last.hooks)]
  /\ UNCHANGED <<sessionStates, files, dirExists, cleared>>

HooksNext == UninstallHooks \/ RemoveFromGlobalHooksJson \/ UninstallProjectHooks

HooksSpec == HooksInit /\ [][HooksNext]_vars

-----------------------------------------------------------------------------
(* The handlers as the host runs them: a handler is called with an event,  *)
(* executes its statements and returns a promise that settles later.  The  *)
(* handlers are async functions without any await, so a handler that has   *)
(* been called executes all its statements before other code runs.         *)

\* the handler calls whose promises have not settled
MaxInFlight == 2

\* the events the host dispatches
HostEvents ==
  [kind : {"tool.execute.after"}, id : SessionIds,
   output : {rPlain, rGate, rVerify}]
  \cup [kind : {"experimental.session.compacting", "session.deleted"}, id : SessionIds,
        output : {<<>>}]

\* a slot without a handler call
FreeSlot == [pc |-> "free", kind |-> "", id |-> "", output |-> <<>>, local |-> <<>>]

\* an event as the handlers take it
HandlerInput(h) ==
  [tool |-> <<tMcpPromptEngine>>, output |-> <<h.output>>, chain_id |-> ArgUndefined,
   type |-> h.kind, sessionID |-> <<h.id>>, session_id |-> <<>>]

\* the store after the whole handler has run on it
HandleWhole(store, h) ==
  IF h.kind = "tool.execute.after"
  THEN LET out == toolExecuteAfter(store.mem, store.files, store.dir, HandlerInput(h), "none")
       IN  [mem |-> out.mem, files |-> out.files, dir |-> out.dir]
  ELSE IF h.kind = "experimental.session.compacting"
  THEN LET out == sessionCompacting(store.mem, store.files, store.dir, HandlerInput(h), "none")
       IN  [mem |-> out.mem, files |-> store.files, dir |-> out.dir]
  ELSE LET out == sessionEvent(store.mem, store.files, store.dir, HandlerInput(h), "none")
       IN  [mem |-> out.mem, files |-> out.files, dir |-> out.dir]

\* the first statements of a handler: tool.execute.after parses the response,
\* the compaction handler loads the state, clearSessionState deletes the Map
\* entry; [store, local]
HandleFirst(store, h) ==
  IF h.kind = "tool.execute.after"
  THEN [store |-> store, local |-> ParseResponse(h.output)]
  ELSE IF h.kind = "experimental.session.compacting"
  THEN LET load == loadSessionState(store.mem, store.files, store.dir, h.id, "none")
       IN  [store |-> [store EXCEPT !.mem = load.mem, !.dir = load.dir],
            local |-> load.result]
  ELSE [store |-> [store EXCEPT !.mem = MapDelete(store.mem, h.id)], local |-> <<>>]

\* the statements that follow: tool.execute.after saves the state it parsed,
\* the compaction handler formats what it loaded, clearSessionState removes
\* the file
HandleRest(store, h) ==
  IF h.kind = "tool.execute.after" /\ h.local # <<>>
  THEN LET out == saveSessionState(store.mem, store.files, store.dir, h.id, h.local[1],
                                   FALSE, "none")
       IN  [mem |-> out.mem, files |-> out.files, dir |-> out.dir]
  ELSE IF h.kind = "session.deleted"
  THEN LET out == clearSessionState(store.mem, store.files, store.dir, h.id, "none")
       IN  [mem |-> out.mem, files |-> out.files, dir |-> out.dir]
  ELSE store

\* a handler that has statements left to execute
IsExecuting(h) == h.pc \in {"called", "saving"}

\* handlers that give up the thread between their statements
CanRun_yielding(handlers, i) == TRUE

\* the code of slot i can run: no other handler has statements left, as no
\* handler awaits
CanRun(handlers, i) == \A j \in DOMAIN handlers \ {i} : ~IsExecuting(handlers[j])

ConcInit ==
  /\ sessionStates = EmptyMap
  /\ dirExists \in BOOLEAN
  /\ files \in (IF dirExists THEN InitFiles ELSE {EmptyMap})
  /\ cleared = {}
  /\ last = [op |-> "handlers",
             handlers |-> [i \in 1..MaxInFlight |-> FreeSlot],
             serial |-> [mem |-> sessionStates, files |-> files, dir |-> dirExists]]

\* the host calls a handler with an event, which takes the first free slot;
\* serial is the store of a host that handles the events one at a time in
\* the order of the calls
Dispatch ==
  \E i \in 1..MaxInFlight, event \in HostEvents :
    /\ last.handlers[i].pc = "free"
    /\ \A j \in 1..(i - 1) : last.handlers[j].pc # "free"
    /\ CanRun(last.handlers, i)
    /\ \E h \in {[pc |-> "called", kind |-> event.kind, id |-> event.id,
                  output |-> event.output, local |-> <<>>]} :
         last' = [last EXCEPT !.handlers[i] = h, !.serial = HandleWhole(@, h)]
    /\ UNCHANGED <<sessionStates, files, dirExists, cleared>>

\* a called handler executes its first statements
HandlerBegins ==
  \E i \in 1..MaxInFlight :
    /\ last.handlers[i].pc = "called"
    /\ CanRun(last.handlers, i)
    /\ \E out \in {HandleFirst([mem |-> sessionStates, files |-> files, dir |-> dirExists],
                               last.handlers[i])} :
         /\ sessionStates' = out.store.mem
         /\ files' = out.store.files
         /\ dirExists' = out.store.dir
         /\ last' = [last EXCEPT !.handlers[i].pc = "saving",
                                 !.handlers[i].local = out.local]
    /\ UNCHANGED cleared

\* it executes the rest and returns
HandlerReturns ==
  \E i \in 1..MaxInFlight :
    /\ last.handlers[i].pc = "saving"
    /\ CanRun(last.handlers, i)
    /\ \E out \in {HandleRest([mem |-> sessionStates, files |-> files, dir |-> dirExists],
                              last.handlers[i])} :
         /\ sessionStates' = out.mem
         /\ files' = out.files
         /\ dirExists' = out.dir
    /\ last' = [last EXCEPT !.handlers[i].pc = "returned", !.handlers[i].local = <<>>]
    /\ UNCHANGED cleared

\* the promise of a returned handler settles
PromiseSettles ==
  \E i \in 1..MaxInFlight :
    /\ last.handlers[i].pc = "returned"
    /\ last' = [last EXCEPT !.handlers[i] = FreeSlot]
    /\ UNCHANGED <<sessionStates, files, dirExists, cleared>>

ConcNext == Dispatch \/ HandlerBegins \/ HandlerReturns \/ PromiseSettles

ConcSpec == ConcInit /\ [][ConcNext]_vars

-----------------------------------------------------------------------------
(* tool.execute.after called once, on an empty store, with each response.  *)

ContextInit ==
  /\ sessionStates = EmptyMap
  /\ files = EmptyMap
  /\ dirExists = FALSE
  /\ cleared = {}
  /\ \E output \in ContextResponses, chain_id \in ArgChainIds, sf \in SessionFields :
       last = [op |-> "call", output |-> output, chain_id |-> chain_id, session |-> sf]

\* the prompt_engine call has executed and the host delivers it
CallExecuted ==
  /\ last.op = "call"
  /\ \E out \in {toolExecuteAfter(sessionStates, files, dirExists,
                                  [tool |-> <<tMcpPromptEngine>>, output |-> <<last.output>>,
                                   chain_id |-> last.chain_id,
                                   sessionID |-> last.session.sessionID,
                                   session_id |-> last.session.session_id], "none")} :
       /\ sessionStates' = out.mem
       /\ files' = out.files
       /\ dirExists' = out.dir
       /\ last' = [op |-> "tool.execute.after", id |-> extractSessionId(last.session),
                   output |-> last.output, saved |-> out.saved, context |-> out.context]
  /\ UNCHANGED cleared

ContextNext == CallExecuted

ContextSpec == ContextInit /\ [][ContextNext]_vars

-----------------------------------------------------------------------------
(* formatChainReminder applied to states, given or parsed from a response. *)

\* current_step and total_steps of the states that are formatted
FormatSteps == {<<0, 0>>, <<1, 3>>, <<3, 3>>, <<2, 4>>}

\* "string or null" values: null, the empty string, a string
OptionalStrings(s) == {<<>>, << <<>> >>, <<s>>}

FormatStates ==
  {[chain_id |-> c,
    current_step |-> st[1],
    total_steps |-> st[2],
    pending_gate |-> g,
    gate_criteria |-> <<>>,
    last_prompt_id |-> <<>>,
    pending_shell_verify |-> v,
    shell_verify_attempts |-> a] :
     c \in {<<>>, fChainId}, st \in FormatSteps, g \in OptionalStrings(sGateName),
     v \in OptionalStrings(fCommand), a \in {0, 2}}

\* responses that announce a shell verification
FormatResponses ==
  {rVerify,
   fVerifyMarker \o <<" ">> \o fCommand \o <<NL>> \o wAttempt \o <<" ", "5", "/", "5">>,
   fVerifyMarker \o <<" ">> \o fCommand \o <<NL>> \o fAttempt75,
   fStep13 \o <<NL>> \o fVerifyMarker \o <<" ">>}

FormatInit ==
  /\ sessionStates = EmptyMap
  /\ files = EmptyMap
  /\ dirExists = FALSE
  /\ cleared = {}
  /\ last \in {[op |-> "state", state |-> s, parsed |-> FALSE] : s \in FormatStates}
              \cup {[op |-> "response", text |-> r] : r \in FormatResponses}

\* a response is parsed to the state that is formatted
ParseForReminder ==
  /\ last.op = "response"
  /\ \E out \in {parsePromptEngineResponse([kind |-> "string", text |-> last.text,
                                             blocks |-> <<>>])} :
       /\ out # <<>>
       /\ last' = [op |-> "state", state |-> out[1], parsed |-> TRUE]
  /\ UNCHANGED <<sessionStates, files, dirExists, cleared>>

FormatReminder ==
  /\ last.op = "state"
  /\ \E mode \in {"inline", "full"} :
       last' = [op |-> "format", state |-> last.state, parsed |-> last.parsed,
                mode |-> mode, text |-> formatChainReminder(last.state, mode)]
  /\ UNCHANGED <<sessionStates, files, dirExists, cleared>>

FormatNext == ParseForReminder \/ FormatReminder

FormatSpec == FormatInit /\ [][FormatNext]_vars

-----------------------------------------------------------------------------
(* Properties.                                                             *)

StoreCalls == {"saveSessionState", "loadSessionState", "clearSessionState"}

\* the state stored for a session in memory (<<>>: none)
Stored(id) == MapGet(sessionStates, id)

\* what loadSessionState(id) returns when no file-system call fails
LoadView(id) == loadSessionState(sessionStates, files, dirExists, id, "none").result

\* active, as the data model defines it: a step, a gate or a shell
\* verification that is not null
IsActive(state) ==
  \/ state.current_step > 0
  \/ state.pending_gate # <<>>
  \/ state.pending_shell_verify # <<>>

\* the text of the response of a tool event
ResponseText(l) == IF l.output # <<>> THEN l.output[1] ELSE <<>>

\* a tool.execute.after event of a prompt_engine tool whose response parses
\* to a state
IsQualifying(l) ==
  /\ l.op = "tool.execute.after"
  /\ l.tool # <<>>
  /\ Includes(l.tool[1], wPromptEngine)
  /\ ParseResponse(ResponseText(l)) # <<>>

IsNonEmptyString(arg) == arg.type = "string" /\ arg.value # <<>>

\* C1: a loadSessionState(id) that immediately follows saveSessionState(id, S)
\* with persistToFile = false returns S, field for field, and does not throw,
\* whatever the Map and the session file held before.
C1_RoundTrip ==
  (/\ last.op = "loadSessionState"
   /\ last.prev.op = "saveSessionState"
   /\ last.prev.id = last.id
   /\ ~last.prev.persistToFile)
  => (~last.threw /\ last.result = last.prev.state)

\* C1 witness: the idle state came back although the session file holds
\* something else
C1_Witness ==
  /\ last.op = "loadSessionState"
  /\ last.prev.op = "saveSessionState"
  /\ last.prev.id = last.id
  /\ ~last.prev.persistToFile
  /\ last.result = <<StateIdle>>
  /\ last.id \in DOMAIN files
  /\ files[last.id] = JsonStringify(StateA)

\* C2: a loadSessionState(id) that immediately follows clearSessionState(id)
\* returns null.
C2_ClearThenLoadIsNull ==
  (/\ last.op = "loadSessionState"
   /\ last.prev.op = "clearSessionState"
   /\ last.prev.id = last.id)
  => last.result = <<>>

\* C3: after tool.execute.after has handled a response that parses to a
\* state, the state stored for the session is the parsed one, its chain_id
\* replaced by args.chain_id when that is a non-empty string, and nothing
\* else; after a response that names only a gate, current_step is 0 and,
\* without such an argument, chain_id is empty.
C3_ReplaceNotMerge ==
  IsQualifying(last) =>
    LET parsed == ParseResponse(ResponseText(last))[1]
        expected == IF IsNonEmptyString(last.chain_id)
                    THEN [parsed EXCEPT !.chain_id = last.chain_id.value]
                    ELSE parsed
    IN  /\ Stored(last.id) = <<expected>>
        /\ last.output = <<rGate>> =>
             /\ Stored(last.id)[1].current_step = 0
             /\ ~IsNonEmptyString(last.chain_id) => Stored(last.id)[1].chain_id = <<>>

\* C3 witness: a session at a step of a chain with a chain_id has been given
\* a response that names only a gate
C3_Witness ==
  /\ IsQualifying(last)
  /\ last.output = <<rGate>>
  /\ last.chain_id = ArgUndefined
  /\ last.before.current_step > 0
  /\ last.before.chain_id # <<>>
  /\ Stored(last.id)[1].current_step = 0
  /\ Stored(last.id)[1].chain_id = <<>>

\* C4: what loadSessionState returns for a session changes only in a step
\* that handles a qualifying prompt_engine response for that session or a
\* session.deleted event for that session.
C4_NoImplicitTransition ==
  [][\A id \in SessionIds :
       LoadView(id)' # LoadView(id) =>
         \/ IsQualifying(last') /\ last'.id = id
         \/ last'.op = "session.deleted" /\ last'.id = id]_vars

\* C4 witness: a prompt_engine response without a marker has been handled
\* for a session that is at a step of a chain, and the session still has its
\* state
C4_Witness ==
  /\ last.op = "tool.execute.after"
  /\ last.tool = <<tMcpPromptEngine>>
  /\ last.output = <<rPlain>>
  /\ last.before.current_step > 0
  /\ LoadView(last.id) # <<>>
  /\ LoadView(last.id)[1].current_step = last.before.current_step

\* C5: from a session.deleted event for a session until the next qualifying
\* response for it, loadSessionState returns null for the session and a
\* compaction event for it adds nothing to output.context.
C5_IdleAfterSessionEnd ==
  \A id \in cleared :
    /\ \A fault \in LoadFaults :
         loadSessionState(sessionStates, files, dirExists, id, fault).result = <<>>
    /\ (last.op = "experimental.session.compacting" /\ last.id = id) => last.pushed = <<>>

\* C6: a compaction event appends exactly one entry, the header followed by
\* the full reminder of the session's state, when the session has an active
\* state, and nothing when it has no state or a state that is not active.
C6_CompactionInjectsActiveState ==
  last.op = "experimental.session.compacting" =>
    last.pushed =
      IF Stored(last.id) # <<>> /\ IsActive(Stored(last.id)[1])
      THEN << sCompactionHeader \o formatChainReminder(Stored(last.id)[1], "full") >>
      ELSE <<>>

\* C6 witness: one entry has been appended for a state whose only signal is
\* a pending shell verification
C6_Witness ==
  /\ last.op = "experimental.session.compacting"
  /\ Len(last.pushed) = 1
  /\ Stored(last.id)[1].current_step = 0
  /\ Stored(last.id)[1].pending_gate = <<>>
  /\ Stored(last.id)[1].pending_shell_verify # <<>>

\* C7, as claimed: whenever the arguments carry a chain_id and the response
\* parses to a state, the stored chain_id is the argument's.
C7_ArgumentAlwaysWins ==
  (IsQualifying(last) /\ last.chain_id.type # "undefined")
  => Stored(last.id)[1].chain_id = last.chain_id.value

\* C7, amended: the stored chain_id is the argument's when the argument is a
\* non-empty string, and the one recovered from the text when the argument
\* is missing, is the empty string or is no string.
C7_NonEmptyStringArgumentWins ==
  IsQualifying(last) =>
    Stored(last.id)[1].chain_id =
      IF IsNonEmptyString(last.chain_id)
      THEN last.chain_id.value
      ELSE ParseResponse(ResponseText(last))[1].chain_id

\* C7 witness: the argument's chain_id is stored although the text names
\* another chain
C7_Witness ==
  /\ IsQualifying(last)
  /\ last.chain_id.value = sArgChainId
  /\ ParseResponse(ResponseText(last))[1].chain_id = fChainId
  /\ Stored(last.id)[1].chain_id = sArgChainId

\* a text without the words of a step, gate heading or shell verification
\* marker
HasNoMarker(text) ==
  /\ ~Includes(text, wStep) /\ ~Includes(text, wstep)
  /\ ~Includes(text, wProgress) /\ ~Includes(text, wprogress)
  /\ ~Includes(text, wHashes)
  /\ ~Includes(text, wShellVerification)

C9_FileFailuresSwallowed ==
  [][/\ (/\ last'.op = "saveSessionState"
         /\ last'.persistToFile
         /\ last'.fault = "writeFileSync")
        => /\ ~last'.threw
           /\ sessionStates' = MapSet(sessionStates, last'.id, <<last'.state>>)
     /\ (/\ last'.op = "loadSessionState"
         /\ Stored(last'.id) = <<>>
         /\ last'.id \in DOMAIN files
         /\ (last'.fault = "readFileSync" \/ JsonParseThrows(files[last'.id])))
        => /\ ~last'.threw
           /\ last'.result = <<>>
           /\ sessionStates' = sessionStates
     /\ (/\ last'.op = "clearSessionState"
         /\ last'.id \in DOMAIN files
         /\ last'.fault = "unlinkSync")
        => /\ ~last'.threw
           /\ sessionStates' = MapDelete(sessionStates, last'.id)]_vars

\* C9 witness: a save whose write failed has returned with the new state in
\* the Map and the old content in the file
C9_Witness ==
  /\ last.op = "saveSessionState"
  /\ last.persistToFile
  /\ last.fault = "writeFileSync"
  /\ ~last.threw
  /\ Stored(last.id) = <<last.state>>
  /\ last.id \in DOMAIN files
  /\ files[last.id] # JsonStringify(last.state)

\* C10: no call of saveSessionState, loadSessionState or clearSessionState
\* throws.
C10_NoStoreCallThrows ==
  last.op \in StoreCalls => ~last.threw

\* C11: clearSessionState of a session with no Map entry and no session file
\* changes nothing (Map, files, sessions directory) and does not throw, and
\* a second clearSessionState of the same session changes nothing.
C11_ClearIsIdempotent ==
  [][last'.op = "clearSessionState" =>
       /\ (last'.id \notin DOMAIN sessionStates /\ last'.id \notin DOMAIN files)
          => /\ ~last'.threw
             /\ sessionStates' = sessionStates
             /\ files' = files
             /\ dirExists' = dirExists
       /\ (last.op = "clearSessionState" /\ last.id = last'.id)
          => /\ sessionStates' = sessionStates
             /\ files' = files
             /\ dirExists' = dirExists]_vars

\* the session files after the file of id has been removed or given any
\* other content
FilesChangedFor(fl, id) ==
  {MapDelete(fl, id)} \cup {MapSet(fl, id, c) : c \in StoreDiskContents}

RECURSIVE SplitLines(_)
SplitLines(s) ==
  LET e == SkipToLineEnd(s, 1)
  IN  IF e > Len(s) THEN <<s>>
      ELSE <<SubSeq(s, 1, e - 1)>> \o SplitLines(SubSeq(s, e + 1, Len(s)))

ReminderLines(text) == IF text = <<>> THEN <<>> ELSE SplitLines(text)

\* a gate or a shell verification is pending: the field holds a non-empty
\* string
IsPending(v) == v \notin {<<>>, << <<>> >>}

\* C13: an inline reminder has at most one action line, its second line:
\* the shell-verify action when a shell verification is pending (line 1 then
\* still carries the Gate fragment, before the Verify fragment, when a gate
\* is pending too), else the GATE_REVIEW action when a gate is pending, else
\* the continue action naming prompt_engine and the chain_id when the chain
\* has steps left, and no action line otherwise.  Pending: a non-empty
\* string.
C13_InlineActionPriority ==
  (last.op = "format" /\ last.mode = "inline") =>
    LET s == last.state
        ls == ReminderLines(last.text)
    IN  /\ Len(ls) <= 2
        /\ IsPending(s.pending_shell_verify) =>
             /\ Len(ls) = 2
             /\ ls[2] = sInlineVerifyHead \o s.pending_shell_verify[1] \o sInlineVerifyTail
             /\ IsPending(s.pending_gate) =>
                  Includes(ls[1], sGateFragment \o s.pending_gate[1] \o sJoin \o sVerifyFragment)
        /\ (~IsPending(s.pending_shell_verify) /\ IsPending(s.pending_gate)) =>
             /\ Len(ls) = 2
             /\ ls[2] = sInlineGate
        /\ (~IsPending(s.pending_shell_verify) /\ ~IsPending(s.pending_gate)) =>
             IF s.current_step > 0 /\ s.current_step < s.total_steps
             THEN /\ Len(ls) = 2
                  /\ ls[2] = sInlineChainHead \o s.chain_id \o sInlineChainTail
             ELSE Len(ls) <= 1

\* C13 witness: an inline reminder for a state at step 1 of 3 with a gate and
\* a shell verification pending, whose action is the shell-verify action
C13_Witness ==
  /\ last.op = "format"
  /\ last.mode = "inline"
  /\ last.state.current_step = 1
  /\ last.state.pending_gate = <<sGateName>>
  /\ last.state.pending_shell_verify = <<fCommand>>
  /\ Len(ReminderLines(last.text)) = 2
  /\ StartsAt(ReminderLines(last.text)[2], 1, sInlineVerifyHead)

\* the attempt number a reminder shows: the stored one, 1 when none is stored
ShownAttempts(s) == IF s.shell_verify_attempts = 0 THEN 1 ELSE s.shell_verify_attempts

\* the status fragments that apply to a state, in the order chain, Gate,
\* Verify
StatusFragments(s) ==
  (IF s.current_step > 0
   THEN << <<"[">> \o (IF s.chain_id = <<>> THEN sActive ELSE s.chain_id) \o <<"]", " ">>
           \o IntToStr(s.current_step) \o <<"/">> \o IntToStr(s.total_steps) >>
   ELSE <<>>)
  \o (IF IsPending(s.pending_gate) THEN << sGateFragment \o s.pending_gate[1] >> ELSE <<>>)
  \o (IF IsPending(s.pending_shell_verify)
      THEN << sVerifyFragment \o IntToStr(ShownAttempts(s)) \o sOfMax >>
      ELSE <<>>)

\* C14: an inline reminder has at most two lines; its first line is the
\* status fragments that apply, joined by " | " in the order chain, Gate,
\* Verify; it is the empty string exactly when current_step is 0 and neither
\* a gate nor a shell verification is pending (pending: a non-empty string).
C14_InlineStatusLine ==
  (last.op = "format" /\ last.mode = "inline") =>
    LET s == last.state
        ls == ReminderLines(last.text)
        none == /\ s.current_step = 0
                /\ ~IsPending(s.pending_gate)
                /\ ~IsPending(s.pending_shell_verify)
    IN  /\ Len(ls) <= 2
        /\ last.text = <<>> <=> none
        /\ ~none => ls[1] = Join(StatusFragments(s), sJoin)

\* C14 witness: an inline reminder whose first line holds the three
\* fragments
C14_Witness ==
  /\ last.op = "format"
  /\ last.mode = "inline"
  /\ Len(StatusFragments(last.state)) = 3
  /\ ReminderLines(last.text)[1] = Join(StatusFragments(last.state), sJoin)
  /\ last.state.chain_id = <<>>
  /\ Includes(last.text, sActive)

\* the lines of ls that start with w
LinesWith(ls, w) == {i \in 1..Len(ls) : StartsAt(ls[i], 1, w)}

sStep24 == <<"S", "t", "e", "p", " ", "2", "/", "4">>

\* C15: a full reminder holds one [Chain] line iff current_step > 0, one
\* [Gate] line iff a gate is pending, the [Verify] line followed by the
\* instruction iff a shell verification is pending (pending: a non-empty
\* string), and no other line; [Chain] comes before [Gate], [Gate] before
\* [Verify]; for step 2/4 with no gate and no verify it is one [Chain] line
\* with Step 2/4.
C15_FullLinesInOrder ==
  (last.op = "format" /\ last.mode = "full") =>
    LET s == last.state
        ls == ReminderLines(last.text)
        chain == LinesWith(ls, sChain)
        gate == LinesWith(ls, sGate)
        verify == LinesWith(ls, sVerify)
        instruction == {i \in 1..Len(ls) : ls[i] = sVerifyInstruction}
    IN  /\ Cardinality(chain) = IF s.current_step > 0 THEN 1 ELSE 0
        /\ Cardinality(gate) = IF IsPending(s.pending_gate) THEN 1 ELSE 0
        /\ Cardinality(verify) = IF IsPending(s.pending_shell_verify) THEN 1 ELSE 0
        /\ instruction = {i + 1 : i \in verify}
        /\ Len(ls) = Cardinality(chain) + Cardinality(gate) + 2 * Cardinality(verify)
        /\ \A i \in chain, j \in gate \cup verify : i < j
        /\ \A i \in gate, j \in verify : i < j
        /\ (/\ s.current_step = 2 /\ s.total_steps = 4
            /\ s.pending_gate = <<>> /\ s.pending_shell_verify = <<>>)
           => /\ Len(ls) = 1
              /\ StartsAt(ls[1], 1, sChain)
              /\ Includes(ls[1], sStep24)

\* C15 witness: a full reminder of four lines: chain, gate, verify and the
\* instruction
C15_Witness ==
  /\ last.op = "format"
  /\ last.mode = "full"
  /\ Len(ReminderLines(last.text)) = 4
  /\ LinesWith(ReminderLines(last.text), sChain) = {1}
  /\ LinesWith(ReminderLines(last.text), sGate) = {2}
  /\ LinesWith(ReminderLines(last.text), sVerify) = {3}

\* the number that follows the first occurrence of w in s
NumberAfter(s, w) ==
  LET p == MinOf({i \in 1..Len(s) : StartsAt(s, i, w)})
      a == p + Len(w)
  IN  ParseInt(s, a, SkipWhile(s, a, Digits))

\* C16: in a reminder for a state parsed from a response, the attempt number
\* shown ("Verify: n/5" inline, "Attempt n/5" full) is at most 5.
C16_ShownAttemptAtMostFive ==
  (/\ last.op = "format"
   /\ last.parsed
   /\ IsPending(last.state.pending_shell_verify))
  => NumberAfter(last.text,
                 IF last.mode = "inline" THEN sVerifyFragment ELSE sVerifyAttempt) <= 5

\* the parser has yielded a state with these steps
YieldsSteps(l, step, total) ==
  /\ l.result # <<>>
  /\ l.result[1].current_step = step
  /\ l.result[1].total_steps = total

\* C17, as claimed: for every text that contains "Step 3 of 7" the parser
\* yields step 3 of 7, and for every text that contains "Progress 2/4" step
\* 2 of 4.
C17_ContainedMarkerDecides ==
  last.op = "parse" =>
    /\ Includes(last.text, fStep37) => YieldsSteps(last, 3, 7)
    /\ Includes(last.text, fProgress24) => YieldsSteps(last, 2, 4)

\* the marker m is in the text, no step marker precedes its first occurrence
\* and no digit follows it
IsFirstStepMarker(text, m) ==
  LET I == {i \in 1..Len(text) : StartsAt(text, i, m)}
      p == MinOf(I)
  IN  /\ I # {}
      /\ FirstStep(SubSeq(text, 1, p - 1)) = 0
      /\ p + Len(m) <= Len(text) => text[p + Len(m)] \notin Digits

\* C17, amended: the parser yields step 3 of 7 for every text whose first
\* step marker is "Step 3 of 7" with no digit right after it, and step 2 of
\* 4 for every text whose first step marker is "Progress 2/4" with no digit
\* right after it.
C17_FirstMarkerDecides ==
  last.op = "parse" =>
    /\ IsFirstStepMarker(last.text, fStep37) => YieldsSteps(last, 3, 7)
    /\ IsFirstStepMarker(last.text, fProgress24) => YieldsSteps(last, 2, 4)

\* C17 witness: step 3 of 7 has been yielded for a text that goes on with
\* another step marker
C17_Witness ==
  /\ last.op = "parse"
  /\ last.text = fStep37 \o <<NL>> \o fStep13
  /\ YieldsSteps(last, 3, 7)

\* the positions of the text where a chain token starts: chain, a hyphen or
\* an underscore, and a character of the id
ChainTokenStarts(text) ==
  {i \in 1..Len(text) :
     /\ StartsAt(text, i, wChain)
     /\ i + 6 <= Len(text)
     /\ text[i + 5] \in {"-", "_"}
     /\ text[i + 6] \in ChainIdChars}

\* the token that starts at position i: up to the first character that is
\* not one of the id
TokenAt(text, i) ==
  LET ends == {e \in (i + 6)..Len(text) : text[e] \notin ChainIdChars}
  IN  SubSeq(text, i, IF ends = {} THEN Len(text) ELSE MinOf(ends) - 1)

\* C18: of the step, chain-id and attempt patterns only the leftmost match
\* counts: whatever follows a line of the text, the steps, the chain_id and
\* the attempts of the parsed state are those of the text up to that line
\* once it holds a marker of the kind; the chain_id is the whole first chain
\* token, prefix and # suffix included.
C18_FirstMatchOnly ==
  (last.op = "parse" /\ last.result # <<>>) =>
    LET state == last.result[1]
        text == last.text
    IN  /\ \A i \in 1..Len(text) :
             text[i] = NL =>
               LET before == ExtractState(SubSeq(text, 1, i - 1))
               IN  /\ FirstStep(SubSeq(text, 1, i - 1)) # 0 =>
                        /\ state.current_step = before.current_step
                        /\ state.total_steps = before.total_steps
                   /\ ChainTokenStarts(SubSeq(text, 1, i - 1)) # {} =>
                        state.chain_id = before.chain_id
                   /\ FirstAttempt(SubSeq(text, 1, i - 1)) # 0 =>
                        state.shell_verify_attempts = before.shell_verify_attempts
        /\ ChainTokenStarts(text) # {} =>
             state.chain_id = TokenAt(text, MinOf(ChainTokenStarts(text)))
        /\ ChainTokenStarts(text) = {} => state.chain_id = <<>>

\* C18 witness: a text with two chain tokens has been parsed and the state
\* holds the first
C18_Witness ==
  /\ last.op = "parse"
  /\ last.text = fStep13 \o <<NL>> \o fChainId \o <<NL>> \o fChainOther
  /\ last.result # <<>>
  /\ last.result[1].chain_id = fChainId

\* the parser has left both steps at 0, in the state if it returned one
LeavesStepsAtZero(l) ==
  l.result # <<>> =>
    /\ l.result[1].current_step = 0
    /\ l.result[1].total_steps = 0

\* C19, as claimed: the marker "<word> 2 <connector> 5" sets step 2 of 5 for
\* every upper- and lower-case spelling of Step, Progress and of.
C19_EverySpellingRecognised ==
  last.op = "parse" =>
    \A w \in StepWords, c \in Connectors, tail \in CaseTails :
      last.text = StepMarker(w, c) \o tail => YieldsSteps(last, 2, 5)

\* C19, amended: the marker sets step 2 of 5 when the word is Step, step,
\* Progress or progress and the connector is a lower-case of or a slash; in
\* every other spelling, and in a text without any of the four words, both
\* steps stay 0.
C19_FirstLetterCaseOnly ==
  last.op = "parse" =>
    /\ \A w \in StepWords, c \in Connectors, tail \in CaseTails :
         last.text = StepMarker(w, c) \o tail =>
           IF w \in {wStep, wstep, wProgress, wprogress} /\ c \in {cOf, wSlash}
           THEN YieldsSteps(last, 2, 5)
           ELSE LeavesStepsAtZero(last)
    /\ (/\ ~Includes(last.text, wStep) /\ ~Includes(last.text, wstep)
        /\ ~Includes(last.text, wProgress) /\ ~Includes(last.text, wprogress)) =>
         LeavesStepsAtZero(last)

\* C19 witness: the lower-case marker "progress 2 of 5" has set step 2 of 5
C19_Witness ==
  /\ last.op = "parse"
  /\ last.text = StepMarker(wprogress, cOf)
  /\ YieldsSteps(last, 2, 5)

\* the gate name and the criteria claimed for the gate section
sCodeQuality == <<"c", "o", "d", "e", "-", "q", "u", "a", "l", "i", "t", "y">>

sCheckTypes == <<"C", "h", "e", "c", "k", " ", "t", "y", "p", "e", "s">>

sCheckTests == <<"C", "h", "e", "c", "k", " ", "t", "e", "s", "t", "s">>

\* C20, as claimed: for the gate section "## Inline Gates", "### code-quality",
\* "- Check types", "- Check tests" the parser yields the pending gate
\* code-quality and the two bullet lines as the gate criteria, and nothing
\* else.
C20_CriteriaAreBulletLines ==
  (last.op = "parse" /\ last.text = rInlineGates) =>
    /\ last.result # <<>>
    /\ last.result[1].pending_gate = <<sCodeQuality>>
    /\ last.result[1].gate_criteria = <<sCheckTypes, sCheckTests>>

\* the name of a heading line "### <name>", <<>> for any other line
HeadingName(line) ==
  IF /\ StartsAt(line, 1, wHashes \o <<" ">>)
     /\ Len(line) >= 6
     /\ line[5] \in Letters
     /\ \A k \in 5..Len(line) : line[k] \in GateNameChars
  THEN << SubSeq(line, 5, Len(line)) >>
  ELSE <<>>

\* the names of the heading lines of a text, in order
RECURSIVE HeadingNames(_)
HeadingNames(ls) ==
  IF ls = <<>> THEN <<>>
  ELSE HeadingName(Head(ls)) \o HeadingNames(Tail(ls))

\* C21, as claimed: whenever the text contains "Gate" and has a heading line
\* "### <name>", the parser returns a state whose pending_gate is the
\* trimmed name of the first heading line, wherever that line stands, also
\* as the last line; without any heading pending_gate stays null.
C21_FirstHeadingNamesGate ==
  (last.op = "parse" /\ Includes(last.text, wGate)) =>
    LET names == HeadingNames(SplitLines(last.text))
    IN  /\ names # <<>> =>
             /\ last.result # <<>>
             /\ last.result[1].pending_gate = <<Trim(names[1])>>
        /\ (~Includes(last.text, wHashes) /\ last.result # <<>>) =>
             last.result[1].pending_gate = <<>>

\* what follows the first "Shell verification:" of a text on its line
RestOfVerifyLine(text) ==
  LET p == MinOf({i \in 1..Len(text) : StartsAt(text, i, wShellVerification)})
      a == p + Len(wShellVerification)
  IN  SubSeq(text, a, SkipToLineEnd(text, a) - 1)

\* C22, as claimed: pending_shell_verify is the trimmed text that follows the
\* first "Shell verification:" on the same line and never text of a following
\* line; "Shell verification: npm test", then "Attempt 2/5", yields the
\* command npm test and 2 attempts.
C22_VerifyIsRestOfLine ==
  (last.op = "parse" /\ Includes(last.text, wShellVerification)) =>
    LET rest == Trim(RestOfVerifyLine(last.text))
    IN  /\ rest # <<>> =>
             /\ last.result # <<>>
             /\ last.result[1].pending_shell_verify = <<rest>>
        /\ (rest = <<>> /\ last.result # <<>>) =>
             last.result[1].pending_shell_verify \in {<<>>, << <<>> >>}
        /\ last.text = rVerify =>
             /\ last.result # <<>>
             /\ last.result[1].pending_shell_verify = <<fCommand>>
             /\ last.result[1].shell_verify_attempts = 2

\* the session an event names: its sessionID field, else its session_id
\* field, else "default"
NamedSession(sf) ==
  IF sf.sessionID # <<>> THEN sf.sessionID[1]
  ELSE IF sf.session_id # <<>> THEN sf.session_id[1]
  ELSE "default"

\* C23: every handler works on the session its event names, the sessionID
\* field before the session_id field before "default": tool.execute.after
\* stores its state under that session and no other, session.deleted removes
\* that session and no other from the store, and the compaction handler
\* loads that session's state.
C23_HandlersResolveSession ==
  [][LET id == NamedSession(last'.session)
     IN  /\ (last'.op = "tool.execute.after" /\ last'.saved # <<>>) =>
              sessionStates' = MapSet(sessionStates, id, last'.saved)
         /\ last'.op = "session.deleted" =>
              sessionStates' = MapDelete(sessionStates, id)
         /\ (last'.op = "experimental.session.compacting" /\ last'.loaded # <<>>) =>
              /\ MapGet(sessionStates', id) = last'.loaded
              /\ \A other \in DOMAIN sessionStates' \ {id} :
                   other \in DOMAIN sessionStates
                   /\ sessionStates'[other] = sessionStates[other]]_vars

\* C23 witness: an event without session fields has stored a state under
\* "default" while session s1 has none
C23_Witness ==
  /\ last.op = "tool.execute.after"
  /\ last.session = [sessionID |-> <<>>, session_id |-> <<>>]
  /\ last.saved # <<>>
  /\ Stored("default") = last.saved
  /\ Stored("s1") = <<>>

\* the sessions directory of a workspace
SessionsUnder(workspace) == workspace \o <<"server", "cache", "sessions">>

\* C24: the directory of the session files is that of the first candidate
\* that is set and exists, in the order MCP_WORKSPACE, OPENCODE_PLUGIN_ROOT,
\* project directory, the module's own project root, and the fallback when
\* there is none; a candidate is used only when no candidate before it is
\* set and exists.
C24_WorkspacePriority ==
  last.op = "resolved" =>
    LET mcp == IsUsable(last.env.MCP_WORKSPACE, last.existing)
        root == IsUsable(last.env.OPENCODE_PLUGIN_ROOT, last.existing)
        project == IsUsable(last.projectDir, last.existing)
        self == last.module = "server"
    IN  /\ mcp => last.stateDir = SessionsUnder(last.env.MCP_WORKSPACE[1])
        /\ (~mcp /\ root) =>
             last.stateDir = SessionsUnder(last.env.OPENCODE_PLUGIN_ROOT[1])
        /\ (~mcp /\ ~root /\ project) =>
             last.stateDir = SessionsUnder(last.projectDir[1])
        /\ (~mcp /\ ~root /\ ~project /\ self) =>
             last.stateDir = SessionsUnder(ModuleRoot)
        /\ (~mcp /\ ~root /\ ~project /\ ~self) =>
             /\ last.stateDir \notin {SessionsUnder(w) : w \in WorkspacePaths}
             /\ last.stateDir = FALLBACK_SESSION_DIR(last.module) \o <<"sessions">>

\* C24 witness: MCP_WORKSPACE and OPENCODE_PLUGIN_ROOT name different
\* directories that both exist, and the session files are under the first
C24_Witness ==
  /\ last.op = "resolved"
  /\ last.env.MCP_WORKSPACE = << <<"w2">> >>
  /\ last.env.OPENCODE_PLUGIN_ROOT = << <<"w1">> >>
  /\ last.existing = WorkspacePaths
  /\ last.stateDir = <<"w2", "server", "cache", "sessions">>

\* C25, as claimed: after uninstallHooks, removeFromGlobalHooksJson or
\* uninstallProjectHooks every hook that matches none of the patterns and
\* was present before is still present under the same event.
C25_OtherHooksPreserved ==
  last.op \in {"uninstallHooks", "removeFromGlobalHooksJson", "uninstallProjectHooks"} =>
    \A event \in DOMAIN last.before :
      \A i \in 1..Len(last.before[event]) :
        \A j \in 1..Len(last.before[event][i].hooks) :
          LET command == last.before[event][i].hooks[j]
          IN  ~isOurHook(command) =>
                /\ event \in DOMAIN last.after
                /\ \E k \in 1..Len(last.after[event]) :
                     \E l \in 1..Len(last.after[event][k].hooks) :
                       last.after[event][k].hooks[l] = command

\* C26, as claimed: a prompt_engine call that carries no gate response is
\* blocked before it executes when a gate is pending for its session, so no
\* such call is ever executed and reported to tool.execute.after.  (The
\* calls of this model carry a chain_id argument at most, never a gate
\* response.)
C26_PendingGateBlocksCall ==
  [][~(/\ last'.op = "tool.execute.after"
       /\ last'.tool # <<>>
       /\ Includes(last'.tool[1], wPromptEngine)
       /\ Stored(last'.id) # <<>>
       /\ Truthy(Stored(last'.id)[1].pending_gate))]_vars

\* C27: handlers run to completion: no two handlers have statements left at
\* the same time, so no handler works on a store another handler has half
\* written, and whenever no handler is executing, whatever promises are
\* still unsettled, the store is the store of a host that handled the same
\* events one at a time in the order of the calls.
C27_HandlersRunToCompletion ==
  last.op = "handlers" =>
    LET executing == {i \in 1..MaxInFlight : IsExecuting(last.handlers[i])}
    IN  /\ Cardinality(executing) <= 1
        /\ executing = {} =>
             /\ sessionStates = last.serial.mem
             /\ files = last.serial.files
             /\ dirExists = last.serial.dir

\* C27 witness: two tool.execute.after calls for one session with different
\* responses have returned, neither promise has settled, and the session
\* has a state
C27_Witness ==
  /\ last.op = "handlers"
  /\ \A i \in 1..MaxInFlight :
       /\ last.handlers[i].pc = "returned"
       /\ last.handlers[i].kind = "tool.execute.after"
       /\ last.handlers[i].id = "s1"
  /\ last.handlers[1].output = rGate
  /\ last.handlers[2].output = rVerify
  /\ Stored("s1") # <<>>

\* the lines of a returned context, none when nothing was returned
ContextOf(l) == IF l.context = <<>> THEN <<>> ELSE SplitLines(l.context[1])

\* the first n characters of a criterion
CutTo(c, n) == SubSeq(c, 1, IF Len(c) < n THEN Len(c) ELSE n)

\* the Check line of up to three criteria, each cut to 40 characters
CheckLine(criteria) ==
  sCheck \o Join([k \in 1..(IF Len(criteria) < 3 THEN Len(criteria) ELSE 3) |->
                    CutTo(criteria[k], 40)], sJoin)

\* C28: the context tool.execute.after returns for a saved state holds the
\* line "[Chain] Step n/m - call prompt_engine to continue" iff 0 <
\* current_step < total_steps, the lines "[Gate] <name>" and "Respond:
\* GATE_REVIEW: PASS|FAIL - <reason>" iff a gate is pending, with them a
\* "Check:" line of at most 3 criteria cut to 40 characters iff there are
\* criteria, and no other line; when no line is due, as for a state with a
\* shell verification only or a chain on its final step without a gate, the
\* state is saved and nothing is returned.
C28_ContextLines ==
  (last.op = "tool.execute.after" /\ last.saved # <<>>) =>
    LET state == last.saved[1]
        lines == ContextOf(last)
        has(line) == \E k \in 1..Len(lines) : lines[k] = line
        chain == 0 < state.current_step /\ state.current_step < state.total_steps
        gate == IsPending(state.pending_gate)
        check == gate /\ state.gate_criteria # <<>>
        count(b) == IF b THEN 1 ELSE 0
    IN  /\ Stored(last.id) = last.saved
        /\ chain <=> has(sChain \o sStep \o IntToStr(state.current_step) \o <<"/">>
                         \o IntToStr(state.total_steps) \o sContinue)
        /\ gate <=> \E k \in 1..Len(lines) : StartsAt(lines[k], 1, sGate)
        /\ gate => has(sGate \o state.pending_gate[1])
        /\ gate <=> has(sRespond)
        /\ check <=> \E k \in 1..Len(lines) : StartsAt(lines[k], 1, sCheck)
        /\ check => has(CheckLine(state.gate_criteria))
        /\ Len(lines) = count(chain) + 2 * count(gate) + count(check)
        /\ (~chain /\ ~gate) => last.context = <<>>

\* C28 witness: a chain on its final step without a gate has been saved and
\* no context returned
C28_Witness ==
  /\ last.op = "tool.execute.after"
  /\ last.output = fStep33
  /\ last.saved # <<>>
  /\ Stored(last.id) = last.saved
  /\ last.context = <<>>

\* the attempt number a reminder shows: after "Verify: " in an inline
\* reminder, after "Attempt " in a full one
AttemptShown(l) ==
  NumberAfter(l.text, IF l.mode = "inline" THEN sVerifyFragment ELSE sVerifyAttempt)

\* C29, as claimed: whenever a shell verification is pending, the attempt
\* number shown in both modes equals shell_verify_attempts, for every value
\* of that field, 0 included.
C29_ShownAttemptIsStored ==
  (last.op = "format" /\ IsPending(last.state.pending_shell_verify)) =>
    AttemptShown(last) = last.state.shell_verify_attempts

\* C29, amended: whenever a shell verification is pending, the attempt number
\* shown in both modes equals shell_verify_attempts when that is not 0, and
\* is 1 when it is 0.
C29_ShownAttemptDefaultsToOne ==
  (last.op = "format" /\ IsPending(last.state.pending_shell_verify)) =>
    /\ last.state.shell_verify_attempts # 0 =>
         AttemptShown(last) = last.state.shell_verify_attempts
    /\ last.state.shell_verify_attempts = 0 => AttemptShown(last) = 1

\* C29 witness: a full reminder for a pending shell verification with 0
\* attempts stored shows attempt 1
C29_Witness ==
  /\ last.op = "format"
  /\ last.mode = "full"
  /\ IsPending(last.state.pending_shell_verify)
  /\ last.state.shell_verify_attempts = 0
  /\ AttemptShown(last) = 1

\* every state of the Map is active (the handlers save without persisting,
\* so the Map is the whole store when no session file existed at the start)
StoredStatesActive ==
  \A id \in DOMAIN sessionStates :
    sessionStates[id] # <<>> => hasActive(sessionStates[id][1])

\* C30: starting with no session file, every state the handlers leave in the
\* store has current_step > 0 or pending_gate not null or
\* pending_shell_verify not null, and a compaction event for a session that
\* has a state in the Map pushes the header followed by a non-empty reminder.
C30_StoredStatesAreActive ==
  /\ []StoredStatesActive
  /\ [][(last'.op = "experimental.session.compacting"
          /\ MapGet(sessionStates, last'.id) # <<>>) =>
          /\ last'.pushed # <<>>
          /\ Len(last'.pushed[1]) > Len(sCompactionHeader)]_vars

\* C30 witness: a compaction found the state of a response that had only a
\* shell verification (no step, no gate) and pushed a reminder
C30_Witness ==
  /\ last.op = "experimental.session.compacting"
  /\ last.loaded # <<>>
  /\ last.loaded[1].current_step = 0
  /\ last.loaded[1].pending_gate = <<>>
  /\ last.loaded[1].pending_shell_verify # <<>>
  /\ last.pushed # <<>>
  /\ Len(last.pushed[1]) > Len(sCompactionHeader)

====
